---- MODULE Spec2Model ----
(***************************************************************************)
(* Netlist IR (src/ir/netlist.py), optimizer passes (src/ir/optimizer.py)  *)
(* and the AST -> netlist elaborator (src/hdl_parser/elaborator.py) of     *)
(* fpga_synth, as a state machine.                                         *)
(*                                                                         *)
(* Objects are kept in tables that are never shrunk, as Python keeps an    *)
(* object alive while something refers to it: cellTab[c] is the Cell with  *)
(* id c, netTab[n] the Net with id n, and a pin is the pair <<cell, name>>.*)
(* Netlist.cells / Netlist.nets are the ids the netlist container holds.   *)
(***************************************************************************)
EXTENDS Integers, Sequences, FiniteSets, TLC

\* ---------------------------------------------------------------- bounds
MaxLogic == 2        \* cells the driver creates with create_cell
MaxItems == 2        \* body items of the elaborated module
MaxRuns == 2         \* optimize() calls on one netlist
MaxPropagated == 3   \* cap on constant_propagation's counter
MaxOps == 2          \* operator cells the arithmetic driver creates
MaxSource == 5       \* characters of a text the lexer driver lexes
ArithWidth == 2      \* bit width of the arithmetic driver's cells

\* ---------------------------------------------------------------- basics
NoNet == 0
NoPin == <<0, "">>

SeqOps == {"DFF", "DFFR", "DFFRE", "DFFS"}
IoOps == {"MODULE_INPUT", "MODULE_OUTPUT"}

Range(s) == {s[i] : i \in DOMAIN s}

RECURSIVE RemoveFirst(_, _)
RemoveFirst(s, x) ==
  IF s = <<>> THEN <<>>
  ELSE IF Head(s) = x THEN Tail(s)
  ELSE <<Head(s)>> \o RemoveFirst(Tail(s), x)

Without(s, x) == SelectSeq(s, LAMBDA y : y # x)

Pow2(k) == 2 ^ k

\* ------------------------------------------------------------ Pin / Cell
InPins(n, c) == [i \in DOMAIN n.cellTab[c].ins |-> <<c, n.cellTab[c].ins[i]>>]
OutPins(n, c) == [i \in DOMAIN n.cellTab[c].outs |-> <<c, n.cellTab[c].outs[i]>>]

\* Cell.output: the single output pin (asserts there is exactly one)
OutputPin(n, c) == <<c, n.cellTab[c].outs[1]>>

NetOf(n, p) == n.pinNet[p]
DriverOf(n, p) == IF NetOf(n, p) = NoNet THEN NoPin ELSE n.netTab[NetOf(n, p)].driver

\* Cell.fanin_cells: the driver cell of every connected input pin, in pin order
fanin_cells(n, c) ==
  LET ps == SelectSeq(InPins(n, c), LAMBDA p : DriverOf(n, p) # NoPin)
  IN [i \in DOMAIN ps |-> DriverOf(n, ps[i])[1]]

RECURSIVE FlatSinks(_, _)
FlatSinks(n, ps) ==
  IF ps = <<>> THEN <<>>
  ELSE (IF NetOf(n, Head(ps)) = NoNet THEN <<>>
        ELSE n.netTab[NetOf(n, Head(ps))].sinks) \o FlatSinks(n, Tail(ps))

\* Cell.fanout_cells: the cell of every sink on every output pin's net
fanout_cells(n, c) ==
  LET ss == FlatSinks(n, OutPins(n, c)) IN [i \in DOMAIN ss |-> ss[i][1]]

\* ------------------------------------------------------------------- Net
add_sink(n, net, p) ==
  [n EXCEPT !.netTab[net].sinks = Append(@, p), !.pinNet[p] = net]

\* list.remove raises ValueError when the pin is not a sink: recorded in err
remove_sink(n, net, p) ==
  IF p \notin Range(n.netTab[net].sinks) THEN [n EXCEPT !.err = TRUE]
  ELSE [n EXCEPT !.netTab[net].sinks = RemoveFirst(@, p),
                 !.pinNet[p] = IF @ = net THEN NoNet ELSE @]

set_driver(n, net, p) ==
  [n EXCEPT !.netTab[net].driver = p, !.pinNet[p] = net]

\* --------------------------------------------------------------- Netlist
EmptyNetlist ==
  [cellTab |-> <<>>, netTab |-> <<>>, pinNet |-> <<>>,
   cells |-> <<>>, nets |-> {}, inputs |-> {}, outputs |-> {},
   dirty |-> TRUE, order |-> <<>>, err |-> FALSE]

NewCellId(n) == Len(n.cellTab) + 1
NewNetId(n) == Len(n.netTab) + 1

\* Cell(...) with add_input / add_output for the given pin names: the object
\* exists but is not yet in the netlist
NewCell(n, op, ins, outs, w, value) ==
  LET c == NewCellId(n)
      pins == {<<c, ins[i]>> : i \in DOMAIN ins} \cup {<<c, outs[i]>> : i \in DOMAIN outs}
  IN [n EXCEPT !.cellTab = Append(@, [op |-> op, ins |-> ins, outs |-> outs,
                                      w |-> w, value |-> value]),
               !.pinNet = [p \in pins |-> NoNet] @@ @]

\* Net(...): the object exists but is not yet stored in the netlist
NewNet(n, w) ==
  [n EXCEPT !.netTab = Append(@, [driver |-> NoPin, sinks |-> <<>>, w |-> w])]

add_cell(n, c) ==
  [n EXCEPT !.cells = IF c \in Range(@) THEN @ ELSE Append(@, c), !.dirty = TRUE]

add_net(n, net) == [n EXCEPT !.nets = @ \cup {net}]

\* create_cell: no output_names gives the cell an output pin "Y"
create_cell(n, op, ins, outs, w, value) ==
  add_cell(NewCell(n, op, ins, IF outs = <<>> THEN <<"Y">> ELSE outs, w, value),
           NewCellId(n))

create_net(n, w) == add_net(NewNet(n, w), NewNetId(n))

\* connect(driver_pin, sink_pin) with no net given
connect(n, d, s) ==
  LET n1 == IF NetOf(n, d) # NoNet THEN n ELSE create_net(n, n.cellTab[d[1]].w)
      net == IF NetOf(n, d) # NoNet THEN NetOf(n, d) ELSE NewNetId(n)
      n2 == IF n1.netTab[net].driver = NoPin THEN set_driver(n1, net, d) ELSE n1
      n3 == add_sink(n2, net, s)
  IN [add_net(n3, net) EXCEPT !.dirty = TRUE]

\* connect(driver_pin, sink_pin, net): net = NoNet is the call without a net
connect_with(n, d, s, net) ==
  IF net = NoNet THEN connect(n, d, s)
  ELSE LET n1 == IF n.netTab[net].driver = NoPin THEN set_driver(n, net, d) ELSE n
       IN [add_net(add_sink(n1, net, s), net) EXCEPT !.dirty = TRUE]

add_module_input(n, w) ==
  LET n1 == create_cell(n, "MODULE_INPUT", <<>>, <<"Y">>, w, -1)
  IN [n1 EXCEPT !.inputs = @ \cup {NewCellId(n)}]

add_module_output(n, w) ==
  LET n1 == create_cell(n, "MODULE_OUTPUT", <<"A">>, <<>>, w, -1)
  IN [n1 EXCEPT !.outputs = @ \cup {NewCellId(n)}]

RECURSIVE RemoveInputSinks(_, _)
RemoveInputSinks(n, ps) ==
  IF ps = <<>> THEN n
  ELSE RemoveInputSinks(
         IF NetOf(n, Head(ps)) # NoNet THEN remove_sink(n, NetOf(n, Head(ps)), Head(ps)) ELSE n,
         Tail(ps))

RECURSIVE RemoveAllSinks(_, _, _)
RemoveAllSinks(n, net, ss) ==
  IF ss = <<>> THEN n ELSE RemoveAllSinks(remove_sink(n, net, Head(ss)), net, Tail(ss))

RECURSIVE RemoveOutputNets(_, _)
RemoveOutputNets(n, ps) ==
  IF ps = <<>> THEN n
  ELSE LET net == NetOf(n, Head(ps)) IN
       IF net = NoNet THEN RemoveOutputNets(n, Tail(ps))
       ELSE LET n1 == RemoveAllSinks(n, net, n.netTab[net].sinks)
                n2 == [n1 EXCEPT !.netTab[net].driver = NoPin, !.nets = @ \ {net}]
            IN RemoveOutputNets(n2, Tail(ps))

remove_cell(n, c) ==
  LET n1 == RemoveInputSinks(n, InPins(n, c))
      n2 == RemoveOutputNets(n1, OutPins(n1, c))
  IN [n2 EXCEPT !.cells = Without(@, c),
                !.inputs = @ \ {c}, !.outputs = @ \ {c}, !.dirty = TRUE]

\* ------------------------------------------------------ graph traversal
IsSeq(n, c) == n.cellTab[c].op \in SeqOps

\* in_degree: per cell of the netlist, its fanin cells that are not flip-flops
InDegree(n) ==
  [c \in DOMAIN n.cellTab |->
     IF c \in Range(n.cells)
     THEN Len(SelectSeq(fanin_cells(n, c), LAMBDA f : ~IsSeq(n, f)))
     ELSE 0]

RECURSIVE Relax(_, _, _, _)
Relax(n, deg, queue, succs) ==
  IF succs = <<>> THEN [deg |-> deg, queue |-> queue]
  ELSE LET s == Head(succs) IN
       IF IsSeq(n, s) THEN Relax(n, deg, queue, Tail(succs))
       ELSE LET d2 == [deg EXCEPT ![s] = @ - 1]
            IN Relax(n, d2, IF d2[s] = 0 THEN Append(queue, s) ELSE queue, Tail(succs))

RECURSIVE Kahn(_, _, _, _)
Kahn(n, deg, queue, order) ==
  IF queue = <<>> THEN order
  ELSE LET c == Head(queue)
           r == Relax(n, deg, Tail(queue), fanout_cells(n, c))
       IN Kahn(n, r.deg, r.queue, Append(order, c))

\* the order topological_sort computes when the cache is not used
ComputeOrder(n) ==
  LET deg == InDegree(n)
      seed == SelectSeq(n.cells, LAMBDA c : deg[c] = 0)
      order == Kahn(n, deg, seed, <<>>)
  IN order \o SelectSeq(n.cells, LAMBDA c : c \notin Range(order))

topological_sort(n) ==
  IF ~n.dirty THEN n
  ELSE [n EXCEPT !.order = ComputeOrder(n), !.dirty = FALSE]

\* strongconnect of detect_combinational_loops; t is the record of the
\* closure's variables (index_counter, stack, lowlink, index, on_stack, sccs)
RECURSIVE PopScc(_, _, _)
PopScc(t, c, scc) ==
  LET w == t.stack[Len(t.stack)]
      t1 == [t EXCEPT !.stack = SubSeq(@, 1, Len(@) - 1), !.on_stack = @ \ {w}]
      scc1 == Append(scc, w)
  IN IF w = c
     THEN (IF Len(scc1) > 1 THEN [t1 EXCEPT !.sccs = Append(@, scc1)] ELSE t1)
     ELSE PopScc(t1, c, scc1)

RECURSIVE strongconnect(_, _, _)
RECURSIVE VisitSuccs(_, _, _, _)
\* the successor loop without `if succ.op in dff_ops: continue`
VisitSuccsThroughSeq(n, t, c, succs) ==
  IF succs = <<>> THEN t
  ELSE LET s == Head(succs) IN
       IF s \notin t.indexed
       THEN LET t1 == strongconnect(n, t, s)
                t2 == [t1 EXCEPT !.lowlink[c] = IF t1.lowlink[s] < @ THEN t1.lowlink[s] ELSE @]
            IN VisitSuccs(n, t2, c, Tail(succs))
       ELSE IF s \in t.on_stack
       THEN VisitSuccs(n, [t EXCEPT !.lowlink[c] = IF t.index[s] < @ THEN t.index[s] ELSE @],
                       c, Tail(succs))
       ELSE VisitSuccs(n, t, c, Tail(succs))

VisitSuccs(n, t, c, succs) ==
  IF succs = <<>> THEN t
  ELSE LET s == Head(succs) IN
       IF IsSeq(n, s) THEN VisitSuccs(n, t, c, Tail(succs))
       ELSE IF s \notin t.indexed
       THEN LET t1 == strongconnect(n, t, s)
                t2 == [t1 EXCEPT !.lowlink[c] = IF t1.lowlink[s] < @ THEN t1.lowlink[s] ELSE @]
            IN VisitSuccs(n, t2, c, Tail(succs))
       ELSE IF s \in t.on_stack
       THEN VisitSuccs(n, [t EXCEPT !.lowlink[c] = IF t.index[s] < @ THEN t.index[s] ELSE @],
                       c, Tail(succs))
       ELSE VisitSuccs(n, t, c, Tail(succs))

strongconnect(n, t, c) ==
  LET t1 == [t EXCEPT !.index[c] = t.counter, !.lowlink[c] = t.counter,
                      !.indexed = @ \cup {c}, !.counter = @ + 1,
                      !.stack = Append(@, c), !.on_stack = @ \cup {c}]
      t2 == VisitSuccs(n, t1, c, fanout_cells(n, c))
  IN IF t2.lowlink[c] = t2.index[c] THEN PopScc(t2, c, <<>>) ELSE t2

RECURSIVE TarjanLoop(_, _, _)
TarjanLoop(n, t, cs) ==
  IF cs = <<>> THEN t
  ELSE TarjanLoop(n, IF Head(cs) \notin t.indexed THEN strongconnect(n, t, Head(cs)) ELSE t,
                  Tail(cs))

detect_combinational_loops(n) ==
  LET t0 == [counter |-> 0, stack |-> <<>>, on_stack |-> {}, indexed |-> {},
             index |-> [c \in DOMAIN n.cellTab |-> 0],
             lowlink |-> [c \in DOMAIN n.cellTab |-> 0], sccs |-> <<>>]
  IN TarjanLoop(n, t0, n.cells).sccs

RECURSIVE FindLive(_, _, _)
\* the reverse search of find_dead_cells: stack is popped at its end
FindLive(n, stack, live) ==
  IF stack = <<>> THEN live
  ELSE LET c == stack[Len(stack)]
           rest == SubSeq(stack, 1, Len(stack) - 1)
       IN IF c \in live THEN FindLive(n, rest, live)
          ELSE FindLive(n, rest \o fanin_cells(n, c), live \cup {c})

find_dead_cells(n) ==
  LET live == FindLive(n, SelectSeq(n.cells, LAMBDA c : c \in n.outputs), {})
  IN {c \in Range(n.cells) : c \notin live}

\* the sequences in which the loop of remove_dead_logic may visit the set S
Orderings(S) == {q \in [1..Cardinality(S) -> S] : {q[i] : i \in DOMAIN q} = S}

RECURSIVE RemoveEach(_, _)
RemoveEach(n, cs) == IF cs = <<>> THEN n ELSE RemoveEach(remove_cell(n, Head(cs)), Tail(cs))

\* remove_dead_logic when its loop visits the dead cells in the order cs
remove_dead_logic(n, cs) == [nl |-> RemoveEach(n, cs), count |-> Len(cs)]

\* ------------------------------------------------------------ optimizer
\* NetlistAnalyzer.critical_path_depth. visit(cell, memo) writes memo[cell]
\* only when the visit of cell returns, so a call on a cell whose visit is in
\* progress (a cell of path) repeats that call with the same memo: the
\* recursion goes on until the interpreter's stack is exhausted, and the
\* analysis ends with RecursionError instead of a depth map.
RECURSIVE visit(_, _, _, _)
visit(n, c, memo, path) ==
  IF memo.overflow \/ c \in DOMAIN memo.depth THEN memo
  ELSE IF c \in n.inputs THEN [memo EXCEPT !.depth = @ @@ (c :> 0)]
  ELSE IF c \in path THEN [memo EXCEPT !.overflow = TRUE]
  ELSE LET drivers == SelectSeq([i \in DOMAIN InPins(n, c) |-> DriverOf(n, InPins(n, c)[i])[1]],
                                LAMBDA d : d # NoPin[1])
           VisitAll[i \in 0..Len(drivers)] ==
             IF i = 0 THEN memo ELSE visit(n, drivers[i], VisitAll[i - 1], path \cup {c})
           m == VisitAll[Len(drivers)]
           max_input_depth == IF drivers = <<>> THEN 0
                              ELSE CHOOSE x \in {m.depth[d] : d \in Range(drivers)} :
                                     \A d \in Range(drivers) : m.depth[d] <= x
       IN IF m.overflow THEN m
          ELSE [m EXCEPT !.depth = @ @@ (c :> IF IsSeq(n, c) THEN 0 ELSE max_input_depth + 1)]

critical_path_depth(n) ==
  LET VisitCells[i \in 0..Len(n.cells)] ==
        IF i = 0 THEN [depth |-> [c \in n.inputs |-> 0], overflow |-> FALSE]
        ELSE visit(n, n.cells[i], VisitCells[i - 1], {})
  IN VisitCells[Len(n.cells)]

None == -1

RECURSIVE BitOp(_, _, _)
\* Python's a & b, a | b, a ^ b on non-negative integers (f: the bit function)
BitOp(f, a, b) ==
  IF a = 0 /\ b = 0 THEN 0
  ELSE f[a % 2][b % 2] + 2 * BitOp(f, a \div 2, b \div 2)

Band(a, b) == BitOp([x \in {0, 1} |-> [y \in {0, 1} |-> IF x = 1 /\ y = 1 THEN 1 ELSE 0]], a, b)
Bor(a, b) == BitOp([x \in {0, 1} |-> [y \in {0, 1} |-> IF x = 1 \/ y = 1 THEN 1 ELSE 0]], a, b)
Bxor(a, b) == BitOp([x \in {0, 1} |-> [y \in {0, 1} |-> IF x # y THEN 1 ELSE 0]], a, b)

\* (~x) & mask for x >= 0, mask = 2^w - 1
NotMask(x, w) == (-x - 1) % Pow2(w)

\* driver_cell.attributes.get("value", 0)
ConstValue(n, c) == IF n.cellTab[c].value = None THEN 0 ELSE n.cellTab[c].value

HasConstDriver(n, p) ==
  DriverOf(n, p) # NoPin /\ n.cellTab[DriverOf(n, p)[1]].op = "CONST"

\* _get_constant_inputs(cell) is not None
AllInputsConst(n, c) == \A p \in Range(InPins(n, c)) : HasConstDriver(n, p)

\* const_inputs.get(name, 0)
ConstInput(n, c, name) ==
  IF name \in Range(n.cellTab[c].ins) THEN ConstValue(n, DriverOf(n, <<c, name>>)[1]) ELSE 0

_evaluate_cell(n, c) ==
  LET op == n.cellTab[c].op
      a == ConstInput(n, c, "A")
      b == ConstInput(n, c, "B")
      w == n.cellTab[c].w
  IN CASE op = "NOT" -> NotMask(a, w)
       [] op = "BUF" -> a
       [] op = "NEG" -> (-a) % Pow2(w)
       [] op = "AND" -> Band(a, b)
       [] op = "OR" -> Bor(a, b)
       [] op = "XOR" -> Bxor(a, b)
       [] op = "NAND" -> NotMask(Band(a, b), w)
       [] op = "NOR" -> NotMask(Bor(a, b), w)
       [] op = "XNOR" -> NotMask(Bxor(a, b), w)
       [] op = "ADD" -> (a + b) % Pow2(w)
       [] op = "SUB" -> (a - b) % Pow2(w)
       [] op = "EQ" -> IF a = b THEN 1 ELSE 0
       [] op = "NEQ" -> IF a # b THEN 1 ELSE 0
       [] op = "LT" -> IF a < b THEN 1 ELSE 0
       [] op = "LE" -> IF a <= b THEN 1 ELSE 0
       [] op = "GT" -> IF a > b THEN 1 ELSE 0
       [] op = "GE" -> IF a >= b THEN 1 ELSE 0
       [] op = "SHL" -> (a * Pow2(b)) % Pow2(w)
       [] op = "SHR" -> a \div Pow2(b)
       [] op = "MUX" -> IF ConstInput(n, c, "S") # 0 THEN b ELSE a
       [] OTHER -> None

\* cell.output.net, or NoNet; a cell without exactly one output pin fails the
\* assertion in Cell.output
OutputNet(n, c) == IF Len(n.cellTab[c].outs) = 1 THEN NetOf(n, OutputPin(n, c)) ELSE NoNet

_replace_with_constant(n, c, value) ==
  IF Len(n.cellTab[c].outs) # 1 THEN [n EXCEPT !.err = TRUE]
  ELSE LET output_net == OutputNet(n, c) IN
       IF output_net = NoNet THEN n
       ELSE LET k == NewCellId(n)
                n1 == NewCell(n, "CONST", <<>>, <<"Y">>, n.netTab[output_net].w, value)
                n2 == set_driver(n1, output_net, <<k, "Y">>)
                n3 == add_cell(n2, k)
            IN remove_cell(n3, c)

RECURSIVE MoveSinks(_, _, _, _)
\* for sink in list(from.sinks): from.sinks.remove(sink); to.add_sink(sink)
MoveSinks(n, from, to, ss) ==
  IF ss = <<>> THEN n
  ELSE LET n1 == [n EXCEPT !.netTab[from].sinks = RemoveFirst(@, Head(ss))]
       IN MoveSinks(add_sink(n1, to, Head(ss)), from, to, Tail(ss))

_replace_with_input(n, c, name) ==
  IF name \notin Range(n.cellTab[c].ins) \/ NetOf(n, <<c, name>>) = NoNet THEN n
  ELSE IF Len(n.cellTab[c].outs) # 1 THEN [n EXCEPT !.err = TRUE]
  ELSE LET input_net == NetOf(n, <<c, name>>)
           output_net == OutputNet(n, c)
       IN IF output_net = NoNet THEN n
          ELSE remove_cell(MoveSinks(n, output_net, input_net, n.netTab[output_net].sinks), c)

\* one iteration of constant_propagation's while loop
CpCandidates(n) ==
  SelectSeq(n.cells, LAMBDA c :
    /\ n.cellTab[c].op \notin ({"CONST"} \cup IoOps)
    /\ AllInputsConst(n, c)
    /\ _evaluate_cell(n, c) # None)

RECURSIVE ReplaceConstants(_, _, _)
ReplaceConstants(n, cs, vals) ==
  IF cs = <<>> THEN n
  ELSE ReplaceConstants(_replace_with_constant(n, Head(cs), Head(vals)), Tail(cs), Tail(vals))

CpRound(n) ==
  LET cs == CpCandidates(n)
      vals == [i \in DOMAIN cs |-> _evaluate_cell(n, cs[i])]
  IN ReplaceConstants(n, cs, vals)

\* _find_live_cells: backward traversal from the output cells
RECURSIVE Live(_, _, _)
Live(n, to_visit, live) ==
  IF to_visit = <<>> THEN live
  ELSE LET c == to_visit[Len(to_visit)]
           rest == SubSeq(to_visit, 1, Len(to_visit) - 1)
       IN IF c \in live THEN Live(n, rest, live)
          ELSE LET live1 == live \cup {c}
                   preds == SelectSeq(fanin_cells(n, c), LAMBDA d : d \notin live1)
               IN Live(n, rest \o preds, live1)

RECURSIVE SetToSeq(_)
SetToSeq(S) == IF S = {} THEN <<>> ELSE LET x == CHOOSE x \in S : \A y \in S : x <= y
                                        IN <<x>> \o SetToSeq(S \ {x})

_find_live_cells(n) == Live(n, SetToSeq(n.outputs), {})

RECURSIVE RemoveCells(_, _)
RemoveCells(n, cs) == IF cs = <<>> THEN n ELSE RemoveCells(remove_cell(n, Head(cs)), Tail(cs))

\* the removal loop without the test that keeps module I/O
DeadCellsWithIo(n) ==
  LET live == _find_live_cells(n)
  IN SelectSeq(n.cells, LAMBDA c : c \notin live)

DeadCells(n) ==
  LET live == _find_live_cells(n)
  IN SelectSeq(n.cells, LAMBDA c : c \notin live /\ n.cellTab[c].op \notin IoOps)

dead_code_elimination(n) == [nl |-> RemoveCells(n, DeadCells(n)), count |-> Len(DeadCells(n))]

\* _cell_signature: the op and the driver cell of each input pin; None when an
\* input has no driver.  The string "OP(A:1,B:2)" over the sorted pin names is
\* the same for two cells exactly when op and the name -> driver map agree.
_cell_signature(n, c) ==
  IF \E p \in Range(InPins(n, c)) : DriverOf(n, p) = NoPin THEN <<>>
  ELSE <<n.cellTab[c].op, {<<p[2], DriverOf(n, p)[1]>> : p \in Range(InPins(n, c))}>>

_merge_cells(n, keep, remove) ==
  IF Len(n.cellTab[keep].outs) # 1 \/ Len(n.cellTab[remove].outs) # 1 THEN [n EXCEPT !.err = TRUE]
  ELSE LET keep_net == OutputNet(n, keep)
           remove_net == OutputNet(n, remove)
       IN IF keep_net = NoNet \/ remove_net = NoNet THEN n
          ELSE remove_cell(MoveSinks(n, remove_net, keep_net, n.netTab[remove_net].sinks), remove)

CseSkip == IoOps \cup {"CONST", "DFF", "DFFR", "MEMRD", "MEMWR"}

RECURSIVE CseLoop(_, _, _, _)
\* sigs: the signatures dict, as a set of <<signature, cell>>
CseLoop(n, cs, sigs, eliminated) ==
  IF cs = <<>> THEN [nl |-> n, count |-> eliminated]
  ELSE LET c == Head(cs)
           sig == _cell_signature(n, c)
       IN IF n.cellTab[c].op \in CseSkip \/ sig = <<>>
          THEN CseLoop(n, Tail(cs), sigs, eliminated)
          ELSE IF \E e \in sigs : e[1] = sig
          THEN LET original == (CHOOSE e \in sigs : e[1] = sig)[2]
               IN CseLoop(_merge_cells(n, original, c), Tail(cs), sigs, eliminated + 1)
          ELSE CseLoop(n, Tail(cs), sigs \cup {<<sig, c>>}, eliminated)

common_subexpression_elimination(n) == CseLoop(n, n.cells, {}, 0)

\* identity_elimination
OtherPin(n, c, name) ==
  IF name = "A" /\ "B" \in Range(n.cellTab[c].ins) THEN "B"
  ELSE IF name = "B" /\ "A" \in Range(n.cellTab[c].ins) THEN "A"
  ELSE ""

IdentityOps == {"AND", "OR", "XOR", "ADD", "SUB", "SHL", "SHR"}

IdentityHit(n, c, name) ==
  /\ HasConstDriver(n, <<c, name>>)
  /\ OtherPin(n, c, name) # ""
  /\ LET v == ConstValue(n, DriverOf(n, <<c, name>>)[1])
         op == n.cellTab[c].op
     IN CASE op = "AND" -> v = Pow2(n.cellTab[c].w) - 1
          [] op \in {"OR", "XOR", "ADD"} -> v = 0
          [] op \in {"SUB", "SHL", "SHR"} -> v = 0 /\ name = "B"
          [] OTHER -> FALSE

\* the input pin that replaces the cell, or "" when the cell is no identity
IdentityReplacement(n, c) ==
  IF n.cellTab[c].op \notin IdentityOps THEN ""
  ELSE LET hits == SelectSeq(n.cellTab[c].ins, LAMBDA nm : IdentityHit(n, c, nm))
       IN IF hits = <<>> THEN "" ELSE OtherPin(n, c, Head(hits))

RECURSIVE ReplaceWithInputs(_, _, _)
ReplaceWithInputs(n, cs, names) ==
  IF cs = <<>> THEN n
  ELSE ReplaceWithInputs(_replace_with_input(n, Head(cs), Head(names)), Tail(cs), Tail(names))

identity_elimination(n) ==
  LET cs == SelectSeq(n.cells, LAMBDA c : IdentityReplacement(n, c) # "")
      names == [i \in DOMAIN cs |-> IdentityReplacement(n, cs[i])]
  IN [nl |-> ReplaceWithInputs(n, cs, names), count |-> Len(cs)]

\* algebraic_simplification
SameDriver(n, c) ==
  /\ Len(n.cellTab[c].ins) = 2
  /\ DriverOf(n, InPins(n, c)[1]) # NoPin
  /\ DriverOf(n, InPins(n, c)[2]) # NoPin
  /\ DriverOf(n, InPins(n, c)[1])[1] = DriverOf(n, InPins(n, c)[2])[1]

AlgebraicKind(n, c) ==
  IF ~SameDriver(n, c) THEN ""
  ELSE IF n.cellTab[c].op \in {"AND", "OR"} THEN "identity"
  ELSE IF n.cellTab[c].op \in {"XOR", "SUB"} THEN "zero"
  ELSE ""

RECURSIVE ApplyAlgebraic(_, _, _)
ApplyAlgebraic(n, cs, kinds) ==
  IF cs = <<>> THEN n
  ELSE LET c == Head(cs)
           n1 == IF Head(kinds) = "identity"
                 THEN _replace_with_input(n, c, n.cellTab[c].ins[1])
                 ELSE _replace_with_constant(n, c, 0)
       IN ApplyAlgebraic(n1, Tail(cs), Tail(kinds))

algebraic_simplification(n) ==
  LET cs == SelectSeq(n.cells, LAMBDA c : AlgebraicKind(n, c) # "")
      kinds == [i \in DOMAIN cs |-> AlgebraicKind(n, cs[i])]
  IN [nl |-> ApplyAlgebraic(n, cs, kinds), count |-> Len(cs)]

\* strength_reduction
RECURSIVE IsPow2(_)
IsPow2(v) == IF v <= 0 THEN FALSE ELSE IF v = 1 THEN TRUE
             ELSE IF v % 2 = 1 THEN FALSE ELSE IsPow2(v \div 2)

RECURSIVE BitLength(_)
\* int.bit_length
BitLength(v) == IF v = 0 THEN 0 ELSE 1 + BitLength(v \div 2)

Pow2Pin(n, c, name) ==
  HasConstDriver(n, <<c, name>>) /\ IsPow2(ConstValue(n, DriverOf(n, <<c, name>>)[1]))

\* <<other_pin, shift_amount>> for a MUL by a power of two, or <<>>
ShiftPlan(n, c) ==
  IF n.cellTab[c].op # "MUL" THEN <<>>
  ELSE LET hits == SelectSeq(n.cellTab[c].ins, LAMBDA nm : Pow2Pin(n, c, nm))
       IN IF hits = <<>> THEN <<>>
          ELSE <<IF Head(hits) = "A" THEN "B" ELSE "A",
                 BitLength(ConstValue(n, DriverOf(n, <<c, Head(hits)>>)[1]) - 1)>>

_transform_to_shift(n, c, shift_op, input_pin, shift_amount) ==
  IF input_pin \notin Range(n.cellTab[c].ins) \/ Len(n.cellTab[c].outs) # 1
  THEN [n EXCEPT !.err = TRUE]
  ELSE LET input_net == NetOf(n, <<c, input_pin>>)
           output_net == OutputNet(n, c)
       IN IF input_net = NoNet \/ output_net = NoNet THEN n
          ELSE LET sh == NewCellId(n)
                   k == sh + 1
                   knet == NewNetId(n)
                   n1 == NewCell(n, shift_op, <<"A", "B">>, <<"Y">>, n.netTab[output_net].w, None)
                   n2 == add_sink(n1, input_net, <<sh, "A">>)
                   n3 == NewCell(n2, "CONST", <<>>, <<"Y">>, 1, shift_amount)
                   n4 == set_driver(NewNet(n3, 1), knet, <<k, "Y">>)
                   n5 == add_cell(add_net(n4, knet), k)
                   n6 == add_sink(n5, knet, <<sh, "B">>)
                   n7 == set_driver(n6, output_net, <<sh, "Y">>)
               IN remove_cell(add_cell(n7, sh), c)

RECURSIVE ApplyShifts(_, _, _)
ApplyShifts(n, cs, plans) ==
  IF cs = <<>> THEN n
  ELSE ApplyShifts(_transform_to_shift(n, Head(cs), "SHL", Head(plans)[1], Head(plans)[2]),
                   Tail(cs), Tail(plans))

strength_reduction(n) ==
  LET cs == SelectSeq(n.cells, LAMBDA c : ShiftPlan(n, c) # <<>>)
      plans == [i \in DOMAIN cs |-> ShiftPlan(n, cs[i])]
  IN [nl |-> ApplyShifts(n, cs, plans), count |-> Len(cs)]

DefaultPasses == <<"identity", "algebraic", "constant_prop", "strength_reduce", "dead_code", "cse">>

\* ================================================================ state
VARIABLES
  cellTab,      \* Cell objects by id: op, input / output pin names, width, value
  netTab,       \* Net objects by id: driver pin, sink pins, width
  pinNet,       \* Pin.net of every pin
  cells,        \* Netlist.cells, in insertion order
  nets,         \* Netlist.nets
  inputs,       \* Netlist.inputs
  outputs,      \* Netlist.outputs
  topo_dirty,   \* Netlist._topo_dirty
  topo_order,   \* Netlist._topo_order
  err,          \* an exception escaped an operation
  pc,           \* what the caller is doing: "build", "elab", "idle", "opt", "asked", "failed"
  wired,        \* input pins the driver has connected
  net_map,      \* Elaborator.net_map
  module,       \* the module elaborated so far: its declarations and body items
  passes,       \* optimize(): the passes still to run
  stats,        \* optimize(): the statistics dictionary
  propagated,   \* constant_propagation(): its counter
  history,      \* the pass lists of the optimize() calls made so far
  before,       \* the netlist when the running / last optimize() was called
  result        \* what the last query returned

netvars == <<cellTab, netTab, pinNet, cells, nets, inputs, outputs, topo_dirty, topo_order, err>>
optvars == <<passes, stats, propagated, history, before>>
vars == <<netvars, pc, wired, net_map, module, optvars, result>>

NL == [cellTab |-> cellTab, netTab |-> netTab, pinNet |-> pinNet, cells |-> cells,
       nets |-> nets, inputs |-> inputs, outputs |-> outputs,
       dirty |-> topo_dirty, order |-> topo_order, err |-> err]

SetNL(n) ==
  /\ cellTab' = n.cellTab /\ netTab' = n.netTab /\ pinNet' = n.pinNet
  /\ cells' = n.cells /\ nets' = n.nets /\ inputs' = n.inputs /\ outputs' = n.outputs
  /\ topo_dirty' = n.dirty /\ topo_order' = n.order /\ err' = n.err

PassNames == Range(DefaultPasses)
NoStats == [p \in PassNames |-> None]
NoResult == [op |-> "", val |-> <<>>]
NoModule == [decl |-> <<>>, body |-> <<>>]
Signals == {"a", "c", "x"}
NoMap == [s \in Signals |-> NoNet]

InitNL(n) ==
  /\ cellTab = n.cellTab /\ netTab = n.netTab /\ pinNet = n.pinNet
  /\ cells = n.cells /\ nets = n.nets /\ inputs = n.inputs /\ outputs = n.outputs
  /\ topo_dirty = n.dirty /\ topo_order = n.order /\ err = n.err

Init ==
  /\ InitNL(EmptyNetlist)
  /\ pc = "build" /\ wired = 0 /\ net_map = NoMap /\ module = NoModule
  /\ passes = <<>> /\ stats = NoStats /\ propagated = 0 /\ history = <<>>
  /\ before = EmptyNetlist /\ result = NoResult

\* ------------------------------------------- the netlist API, bounded driver
\* The driver registers the module's input and output first, creates at most
\* MaxLogic further cells, then connects input pins one after the other, in pin order.
LogicPalette ==
  { [op |-> "CONST", ins |-> <<>>, outs |-> <<"Y">>, value |-> 1],
    [op |-> "NOT", ins |-> <<"A">>, outs |-> <<"Y">>, value |-> None],
    [op |-> "AND", ins |-> <<"A", "B">>, outs |-> <<"Y">>, value |-> None],
    [op |-> "DFF", ins |-> <<"CLK", "D">>, outs |-> <<"Q">>, value |-> None] }

LogicCells(n) == SelectSeq(n.cells, LAMBDA c : n.cellTab[c].op \notin IoOps)

RECURSIVE AllInPins(_, _)
AllInPins(n, cs) == IF cs = <<>> THEN <<>> ELSE InPins(n, Head(cs)) \o AllInPins(n, Tail(cs))

DriverPins(n) ==
  {OutputPin(n, c) : c \in {d \in Range(n.cells) : n.cellTab[d].op # "MODULE_OUTPUT"}}

Building == pc = "build" /\ wired = 0 /\ module = NoModule

AddModuleInput ==
  /\ Building /\ cells = <<>>
  /\ SetNL(add_module_input(NL, 1))
  /\ UNCHANGED <<pc, wired, net_map, module, optvars, result>>

AddModuleOutput ==
  /\ Building /\ outputs = {} /\ LogicCells(NL) = <<>>
  /\ SetNL(add_module_output(NL, 1))
  /\ UNCHANGED <<pc, wired, net_map, module, optvars, result>>

CreateCell ==
  /\ Building /\ Len(LogicCells(NL)) < MaxLogic
  /\ \E k \in LogicPalette : SetNL(create_cell(NL, k.op, k.ins, k.outs, 1, k.value))
  /\ UNCHANGED <<pc, wired, net_map, module, optvars, result>>

Connect ==
  /\ pc = "build" /\ module = NoModule
  /\ \E i \in DOMAIN AllInPins(NL, cells), d \in DriverPins(NL) :
       /\ i = wired + 1
       /\ SetNL(connect(NL, d, AllInPins(NL, cells)[i]))
       /\ wired' = i
  /\ UNCHANGED <<pc, net_map, module, optvars, result>>

\* The arithmetic driver: cells of width ArithWidth, at most one constant,
\* created first, and at most MaxOps operator cells.
ArithPalette ==
  [op : {"CONST"}, ins : {<<>>}, outs : {<<"Y">>}, value : 0..(Pow2(ArithWidth) - 1)]
  \cup [op : {"MUL", "AND", "OR", "SUB"}, ins : {<<"A", "B">>}, outs : {<<"Y">>}, value : {None}]

CreateArithCell ==
  /\ Building
  /\ \E k \in ArithPalette :
       /\ IF k.op = "CONST" THEN LogicCells(NL) = <<>>
          ELSE Len(SelectSeq(cells, LAMBDA c : cellTab[c].op \in IdentityOps \cup {"MUL"})) < MaxOps
       /\ SetNL(create_cell(NL, k.op, k.ins, k.outs, ArithWidth, k.value))
  /\ UNCHANGED <<pc, wired, net_map, module, optvars, result>>

CompareOps == {"EQ", "NEQ", "LT", "LE", "GT", "GE"}

\* The driver for constant folding: constants of width ArithWidth, created
\* first, whose value is that of a literal of this width, also of one that
\* exceeds it (4'd31 has width 4 and value 31: resolve_number does not reduce
\* the value, and _elaborate_const stores it unchanged), then one operator
\* cell of any operation _evaluate_cell evaluates; a module output, when
\* there is one, is the sink of the operator's result.
FoldOps ==
  [op : {"NOT", "BUF", "NEG"}, ins : {<<"A">>}, outs : {<<"Y">>}, value : {None}]
  \cup [op : {"AND", "OR", "XOR", "NAND", "NOR", "XNOR", "ADD", "SUB", "SHL", "SHR"}
             \cup CompareOps,
        ins : {<<"A", "B">>}, outs : {<<"Y">>}, value : {None}]
  \cup [op : {"MUX"}, ins : {<<"A", "B", "S">>}, outs : {<<"Y">>}, value : {None}]

FoldPalette ==
  [op : {"CONST"}, ins : {<<>>}, outs : {<<"Y">>}, value : 0..(Pow2(ArithWidth + 1) - 1)]
  \cup FoldOps

CreateFoldCell ==
  /\ Building
  /\ \E k \in FoldPalette :
       /\ \A c \in Range(LogicCells(NL)) : cellTab[c].op = "CONST"
       /\ IF k.op = "CONST" THEN Len(LogicCells(NL)) < MaxOps
          ELSE LogicCells(NL) # <<>>
       /\ SetNL(create_cell(NL, k.op, k.ins, k.outs, ArithWidth, k.value))
  /\ UNCHANGED <<pc, wired, net_map, module, optvars, result>>

\* The driver for common subexpression elimination: flip-flops with set,
\* memory read ports and single-bit selects a[value], whose attributes msb and
\* lsb are both the cell's value.
CsePalette ==
  { [op |-> "DFFS", ins |-> <<"CLK", "D", "S">>, outs |-> <<"Q">>, value |-> None],
    [op |-> "DFFRE", ins |-> <<"CLK", "D", "RST", "EN">>, outs |-> <<"Q">>, value |-> None],
    [op |-> "MEMRD", ins |-> <<"ADDR">>, outs |-> <<"DATA">>, value |-> None],
    [op |-> "SLICE", ins |-> <<"A">>, outs |-> <<"Y">>, value |-> 0],
    [op |-> "SLICE", ins |-> <<"A">>, outs |-> <<"Y">>, value |-> 1] }

CreateCseCell ==
  /\ Building /\ Len(LogicCells(NL)) < MaxLogic
  /\ \E k \in CsePalette :
       /\ \A c \in Range(LogicCells(NL)) : cellTab[c].op = k.op
       /\ SetNL(create_cell(NL, k.op, k.ins, k.outs, 1, k.value))
  /\ UNCHANGED <<pc, wired, net_map, module, optvars, result>>

\* ------------------------------------------------------------ elaborator
\* Expressions: [k |-> "id", name], [k |-> "num", value, width],
\* [k |-> "un", op, e], [k |-> "bin", op, l, r].
\* The result of elaborating one: the netlist, the expression's net, and fail
\* when ElaborationError was raised.
UnaryOps == [op \in {"~", "!"} |-> "NOT"] @@ [op \in {"-"} |-> "NEG"]
BinaryOps == [op \in {"&"} |-> "AND"] @@ [op \in {"|"} |-> "OR"] @@ [op \in {"^"} |-> "XOR"]
             @@ [op \in {"+"} |-> "ADD"] @@ [op \in {"-"} |-> "SUB"] @@ [op \in {"*"} |-> "MUL"]

Failed(n) == [n |-> n, net |-> NoNet, fail |-> TRUE]

_elaborate_const(n, lit) ==
  LET c == NewCellId(n)
      net == NewNetId(n)
      n1 == add_cell(NewCell(n, "CONST", <<>>, <<"Y">>, lit.width, lit.value), c)
      n2 == add_net(set_driver(NewNet(n1, lit.width), net, <<c, "Y">>), net)
  IN [n |-> n2, net |-> net, fail |-> FALSE]

Max(a, b) == IF a >= b THEN a ELSE b

RECURSIVE _elaborate_expr(_, _, _)
_elaborate_binary_op(n, map, e) ==
  IF e.op \notin DOMAIN BinaryOps THEN Failed(n)
  ELSE LET l == _elaborate_expr(n, map, e.l) IN
       IF l.fail THEN l
       ELSE LET r == _elaborate_expr(l.n, map, e.r) IN
            IF r.fail THEN r
            ELSE LET c == NewCellId(r.n)
                     net == NewNetId(r.n)
                     op == BinaryOps[e.op]
                     w == IF op \in CompareOps THEN 1
                          ELSE Max(r.n.netTab[l.net].w, r.n.netTab[r.net].w)
                     n1 == NewCell(r.n, op, <<"A", "B">>, <<"Y">>, w, None)
                     n2 == add_sink(add_sink(n1, l.net, <<c, "A">>), r.net, <<c, "B">>)
                     n3 == add_cell(n2, c)
                     n4 == add_net(set_driver(NewNet(n3, w), net, <<c, "Y">>), net)
                 IN [n |-> n4, net |-> net, fail |-> FALSE]

_elaborate_unary_op(n, map, e) ==
  IF e.op \notin DOMAIN UnaryOps THEN Failed(n)
  ELSE LET a == _elaborate_expr(n, map, e.e) IN
       IF a.fail THEN a
       ELSE LET c == NewCellId(a.n)
                net == NewNetId(a.n)
                w == a.n.netTab[a.net].w
                n1 == NewCell(a.n, UnaryOps[e.op], <<"A">>, <<"Y">>, w, None)
                n2 == add_cell(add_sink(n1, a.net, <<c, "A">>), c)
                n3 == add_net(set_driver(NewNet(n2, w), net, <<c, "Y">>), net)
            IN [n |-> n3, net |-> net, fail |-> FALSE]

_elaborate_expr(n, map, e) ==
  CASE e.k = "num" -> _elaborate_const(n, e)
    [] e.k = "id" -> IF map[e.name] = NoNet THEN Failed(n)
                     ELSE [n |-> n, net |-> map[e.name], fail |-> FALSE]
    [] e.k = "bin" -> _elaborate_binary_op(n, map, e)
    [] e.k = "un" -> _elaborate_unary_op(n, map, e)
    [] OTHER -> Failed(n)

\* the net of a left-hand name, created when the name has none:
\* st is [n |-> netlist, map |-> net_map]
LhsNet(st, name) ==
  IF st.map[name] # NoNet THEN st
  ELSE [n |-> add_net(NewNet(st.n, 1), NewNetId(st.n)),
        map |-> [st.map EXCEPT ![name] = NewNetId(st.n)]]

\* _elaborate_assign and _elaborate_blocking_assign
_elaborate_assign(st, lhs, rhs) ==
  LET st1 == LhsNet(st, lhs)
      lhs_net == st1.map[lhs]
      r == _elaborate_expr(st1.n, st1.map, rhs)
      d == r.n.netTab[r.net].driver
  IN IF r.fail THEN [n |-> r.n, map |-> st1.map, fail |-> TRUE]
     ELSE [n |-> IF d # NoPin THEN set_driver(r.n, lhs_net, d) ELSE r.n,
           map |-> st1.map, fail |-> FALSE]

\* rst_signal is None
NoSignal == ""

\* _create_dff for `lhs <= rhs` with the clock clk and the reset rst
_create_dff(st, lhs, rhs, clk, rst) ==
  LET c == NewCellId(st.n)
      cell_op == IF rst # NoSignal THEN "DFFR" ELSE "DFF"
      ins == IF rst # NoSignal THEN <<"CLK", "D", "RST">> ELSE <<"CLK", "D">>
      st1 == LhsNet([st EXCEPT !.n = NewCell(st.n, cell_op, ins, <<"Q">>, 1, None)], lhs)
      reg_net == st1.map[lhs]
      n1 == [st1.n EXCEPT !.cellTab[c].w = st1.n.netTab[reg_net].w]
      n2 == IF rst # NoSignal /\ st1.map[rst] # NoNet
            THEN add_sink(n1, st1.map[rst], <<c, "RST">>) ELSE n1
      n3 == IF st1.map[clk] # NoNet THEN add_sink(n2, st1.map[clk], <<c, "CLK">>) ELSE n2
      r == _elaborate_expr(n3, st1.map, rhs)
  IN IF r.fail THEN [n |-> r.n, map |-> st1.map, fail |-> TRUE]
     ELSE [n |-> add_cell(set_driver(add_sink(r.n, r.net, <<c, "D">>), reg_net, <<c, "Q">>), c),
           map |-> st1.map, fail |-> FALSE]

\* the literal 0 of a reset branch
Zero == [k |-> "num", value |-> 0, width |-> 1]

\* _elaborate_sequential_if for `if (!cond) lhs <= 0; else lhs <= rhs`
_elaborate_sequential_if(st, cond, lhs, rhs, clk, rst) ==
  LET is_reset_check == rst # NoSignal /\ cond = rst
  IN IF is_reset_check THEN _create_dff(st, lhs, rhs, clk, rst)
     ELSE _create_dff(st, lhs, Zero, clk, rst)

\* the signal names of the driver that contain "clk": none of a, c, x does
ClkNames == {"clk"} \cap {"a", "c", "x"}

RECURSIVE FindClockReset(_, _, _)
\* the loop over the sensitivity list: a posedge entry is the clock when its
\* name contains "clk" or no clock was found yet, a negedge entry is the reset
FindClockReset(sens, clk_signal, rst_signal) ==
  IF sens = <<>> THEN [clk |-> clk_signal, rst |-> rst_signal]
  ELSE LET s == Head(sens)
       IN IF s.edge = "posedge"
          THEN FindClockReset(Tail(sens),
                              IF s.signal \in ClkNames \/ clk_signal = NoSignal
                              THEN s.signal ELSE clk_signal,
                              rst_signal)
          ELSE IF s.edge = "negedge" THEN FindClockReset(Tail(sens), clk_signal, s.signal)
          ELSE FindClockReset(Tail(sens), clk_signal, rst_signal)

\* _elaborate_sequential_always for a block whose body is one statement:
\* form "nba" is `lhs <= rhs`, form "if" is `if (!cond) lhs <= 0; else lhs <= rhs`
_elaborate_sequential_always(st, item) ==
  LET found == FindClockReset(item.sens, NoSignal, NoSignal)
  IN IF found.clk = NoSignal THEN [n |-> st.n, map |-> st.map, fail |-> TRUE]
     ELSE IF item.form = "nba" THEN _create_dff(st, item.lhs, item.rhs, found.clk, found.rst)
     ELSE _elaborate_sequential_if(st, item.cond, item.lhs, item.rhs, found.clk, found.rst)

\* _elaborate_ports and _elaborate_declarations for one declared name
Declare(st, name, kind) ==
  LET c == NewCellId(st.n)
      net == NewNetId(st.n)
  IN CASE kind = "input" ->
            LET n1 == add_cell(NewCell(st.n, "MODULE_INPUT", <<>>, <<"Y">>, 1, None), c)
                n2 == [n1 EXCEPT !.inputs = @ \cup {c}]
                n3 == add_net(set_driver(NewNet(n2, 1), net, <<c, "Y">>), net)
            IN [n |-> n3, map |-> [st.map EXCEPT ![name] = net]]
       [] kind = "output" ->
            LET n1 == add_cell(NewCell(st.n, "MODULE_OUTPUT", <<"A">>, <<>>, 1, None), c)
            IN [n |-> [n1 EXCEPT !.outputs = @ \cup {c}], map |-> st.map]
       [] kind = "wire" ->
            IF st.map[name] # NoNet THEN st
            ELSE [n |-> add_net(NewNet(st.n, 1), net), map |-> [st.map EXCEPT ![name] = net]]
       [] OTHER -> st

\* ports come before the body's declarations
DeclOrder == <<"a", "c", "x">>

RECURSIVE DeclareAll(_, _, _)
DeclareAll(st, decl, names) ==
  IF names = <<>> THEN st
  ELSE DeclareAll(Declare(st, Head(names), decl[Head(names)]), decl, Tail(names))

\* the modules the driver elaborates: input a, output c, and x a wire or undeclared
Headers == {[s \in Signals |-> IF s = "a" THEN "input" ELSE IF s = "c" THEN "output" ELSE k] :
              k \in {"wire", "none"}}

Id(s) == [k |-> "id", name |-> s]
Atoms == {Id(s) : s \in Signals} \cup {[k |-> "num", value |-> 1, width |-> 1]}
Unaries == {[k |-> "un", op |-> "~", e |-> a] : a \in Atoms}
Binaries == {[k |-> "bin", op |-> "&", l |-> a, r |-> Id("a")] : a \in Atoms}
Targets == {"c", "x"}

ElaborateModule ==
  /\ pc = "build" /\ cells = <<>> /\ module = NoModule
  /\ \E h \in Headers :
       LET st == DeclareAll([n |-> NL, map |-> NoMap], h, DeclOrder)
       IN SetNL(st.n) /\ net_map' = st.map /\ module' = [decl |-> h, body |-> <<>>]
  /\ pc' = "elab"
  /\ UNCHANGED <<wired, optvars, result>>

\* one body item was elaborated with the outcome st
ItemDone(item, st) ==
  /\ SetNL(st.n) /\ net_map' = st.map
  /\ module' = [module EXCEPT !.body = Append(@, item)]
  /\ pc' = IF st.fail THEN "failed" ELSE "elab"
  /\ UNCHANGED <<wired, optvars, result>>

Elaborating == pc = "elab" /\ Len(module.body) < MaxItems

ElaborateAssign ==
  /\ Elaborating
  /\ \E lhs \in Targets, rhs \in Atoms \cup Unaries \cup Binaries :
       ItemDone([k |-> "assign", lhs |-> lhs, rhs |-> rhs],
                _elaborate_assign([n |-> NL, map |-> net_map], lhs, rhs))

ElaborateCombinationalAlways ==
  /\ Elaborating
  /\ \E lhs \in Targets, rhs \in Unaries :
       ItemDone([k |-> "always_comb", lhs |-> lhs, rhs |-> rhs],
                _elaborate_assign([n |-> NL, map |-> net_map], lhs, rhs))

\* the sensitivity list that names the clock clk on a posedge and then, when
\* there is one, the reset rst on the edge rst_edge
Sensitivity(clk, rst, rst_edge) ==
  (IF clk = NoSignal THEN <<>> ELSE <<[edge |-> "posedge", signal |-> clk]>>)
  \o (IF rst = NoSignal THEN <<>> ELSE <<[edge |-> rst_edge, signal |-> rst]>>)

\* always @(posedge a), always @(posedge a or negedge x), always @(posedge a
\* or posedge x) or always @(negedge x), one statement; clk and rst are the
\* roles the signals of the list have, sens is the list
SequentialBlocks ==
  {[k |-> "always_ff", clk |-> "a", rst |-> NoSignal, form |-> "nba", cond |-> NoSignal,
    lhs |-> lhs, rhs |-> rhs, sens |-> Sensitivity("a", NoSignal, "negedge")] :
      lhs \in Targets, rhs \in Atoms \cup {[k |-> "un", op |-> "~", e |-> Id(t)] : t \in Targets}}
  \cup {[k |-> "always_ff", clk |-> "a", rst |-> "x", form |-> "nba", cond |-> NoSignal,
         lhs |-> lhs, rhs |-> Id("a"), sens |-> Sensitivity("a", "x", edge)] :
           lhs \in Targets \ {"x"}, edge \in {"negedge", "posedge"}}
  \cup {[k |-> "always_ff", clk |-> NoSignal, rst |-> "x", form |-> "nba", cond |-> NoSignal,
         lhs |-> lhs, rhs |-> Id("a"), sens |-> Sensitivity(NoSignal, "x", "negedge")] :
           lhs \in Targets \ {"x"}}
  \cup {[k |-> "always_ff", clk |-> "a", rst |-> rst, form |-> "if", cond |-> "x",
         lhs |-> lhs, rhs |-> Id("a"), sens |-> Sensitivity("a", rst, "negedge")] :
           lhs \in Targets \ {"x"}, rst \in {NoSignal, "x"}}

ElaborateSequentialAlways ==
  /\ Elaborating
  /\ \E item \in SequentialBlocks :
       /\ item.rhs.k = "un" => item.rhs.e = Id(item.lhs)
       /\ ItemDone(item, _elaborate_sequential_always([n |-> NL, map |-> net_map], item))

\* child_module inst (.a(a), .b(lhs)); where the child's body is assign b = ~a.
\* _elaborate_body has a branch for ContinuousAssign and one for AlwaysBlock;
\* an item of any other class is passed over.
Instances ==
  {[k |-> "instance", module_name |-> "inverter", instance_name |-> inst,
    ports |-> [a |-> Id("a"), b |-> Id(lhs)]] :
      inst \in {"inv1", "inv2"}, lhs \in Targets}

ElaborateInstance ==
  /\ Elaborating
  /\ \E item \in Instances :
       ItemDone(item, [n |-> NL, map |-> net_map, fail |-> FALSE])

\* ------------------------------------------------------------------ lexer
\* A source text is a sequence of characters, each a string of length one;
\* a lexeme is the sequence of the characters it spans.
UpperCase == <<"A", "B", "C", "D", "E", "F", "G", "H", "I", "J", "K", "L", "M", "N", "O", "P", "Q", "R", "S", "T", "U", "V", "W", "X", "Y", "Z">>
LowerCase == <<"a", "b", "c", "d", "e", "f", "g", "h", "i", "j", "k", "l", "m", "n", "o", "p", "q", "r", "s", "t", "u", "v", "w", "x", "y", "z">>
Digits == {"0", "1", "2", "3", "4", "5", "6", "7", "8", "9"}
Letters == Range(UpperCase) \cup Range(LowerCase)
lower(ch) == IF \E i \in DOMAIN UpperCase : UpperCase[i] = ch
             THEN LowerCase[CHOOSE i \in DOMAIN UpperCase : UpperCase[i] = ch] ELSE ch

\* the members of the enumeration TokenType; naming any other member raises
\* AttributeError
TokenType ==
  {"NUMBER", "STRING", "IDENT", "MODULE", "ENDMODULE", "INPUT",
   "OUTPUT", "INOUT", "WIRE", "REG", "PARAMETER", "LOCALPARAM",
   "ASSIGN", "ALWAYS", "BEGIN", "END", "IF", "ELSE", "CASE", "CASEX",
   "CASEZ", "ENDCASE", "DEFAULT", "FOR", "GENERATE", "ENDGENERATE",
   "GENVAR", "POSEDGE", "NEGEDGE", "SIGNED", "INTEGER", "PLUS", "MINUS",
   "STAR", "SLASH", "PERCENT", "AMP", "PIPE", "CARET", "TILDE", "BANG",
   "LSHIFT", "RSHIFT", "ARSHIFT", "LAND", "LOR", "EQ", "NEQ", "LT",
   "LE", "GT", "GE", "QUESTION", "COLON", "AT", "HASH", "LPAREN",
   "RPAREN", "LBRACKET", "RBRACKET", "LBRACE", "RBRACE", "SEMICOLON",
   "COMMA", "DOT", "ASSIGN_OP", "ATAT", "STARPAREN", "EOF"}

\* _peek: the character at pos, "\0" past the end
_peek(source, pos) == IF pos <= Len(source) THEN source[pos] ELSE "\\0"

RECURSIVE ReadWhile(_, _, _)
\* `while not self._at_end() and self._peek() in S: self._advance()`
ReadWhile(source, pos, S) ==
  IF pos <= Len(source) /\ source[pos] \in S THEN ReadWhile(source, pos + 1, S) ELSE pos

\* _read_number: the position after the literal that starts at pos
_read_number(source, pos) ==
  LET digits == Digits \cup {"_"}
      sized == ReadWhile(source, pos, digits)
      based == IF lower(_peek(source, sized + 1)) \in {"b", "h", "d", "o"}
               THEN ReadWhile(source, sized + 2,
                              Digits \cup {"a", "b", "c", "d", "e", "f", "A", "B", "C", "D", "E", "F",
                                           "x", "X", "z", "Z", "_"})
               ELSE sized + 1
      fraction == IF _peek(source, sized) = "." THEN ReadWhile(source, sized + 1, digits)
                  ELSE sized
      sign == IF _peek(source, fraction + 1) \in {"+", "-"} THEN fraction + 2 ELSE fraction + 1
      exponent == IF lower(_peek(source, fraction)) = "e" THEN ReadWhile(source, sign, digits)
                  ELSE fraction
  IN IF _peek(source, sized) = "'" THEN based ELSE exponent

\* the operator tables of tokenize
TWO_CHAR ==
  [ch2 \in {<<"<", "<">>} |-> "LSHIFT"] @@ [ch2 \in {<<">", ">">>} |-> "RSHIFT"]
  @@ [ch2 \in {<<"=", "=">>} |-> "EQ"] @@ [ch2 \in {<<"!", "=">>} |-> "NEQ"]
  @@ [ch2 \in {<<"<", "=">>} |-> "LE"] @@ [ch2 \in {<<">", "=">>} |-> "GE"]
  @@ [ch2 \in {<<"&", "&">>} |-> "LAND"] @@ [ch2 \in {<<"|", "|">>} |-> "LOR"]
  @@ [ch2 \in {<<"-", ">">>} |-> "ARROW"] @@ [ch2 \in {<<"+", ":">>} |-> "PLUSCOLON"]
  @@ [ch2 \in {<<"-", ":">>} |-> "MINUSCOLON"]

ONE_CHAR ==
  [ch \in {"+"} |-> "PLUS"] @@ [ch \in {"-"} |-> "MINUS"] @@ [ch \in {"*"} |-> "STAR"]
  @@ [ch \in {"/"} |-> "SLASH"] @@ [ch \in {"%"} |-> "PERCENT"] @@ [ch \in {"&"} |-> "AMP"]
  @@ [ch \in {"|"} |-> "PIPE"] @@ [ch \in {"^"} |-> "CARET"] @@ [ch \in {"~"} |-> "TILDE"]
  @@ [ch \in {"!"} |-> "BANG"] @@ [ch \in {"<"} |-> "LT"] @@ [ch \in {">"} |-> "GT"]
  @@ [ch \in {"?"} |-> "QUESTION"] @@ [ch \in {":"} |-> "COLON"] @@ [ch \in {"@"} |-> "AT"]
  @@ [ch \in {"#"} |-> "HASH"] @@ [ch \in {"("} |-> "LPAREN"] @@ [ch \in {")"} |-> "RPAREN"]
  @@ [ch \in {"["} |-> "LBRACKET"] @@ [ch \in {"]"} |-> "RBRACKET"]
  @@ [ch \in {"{"} |-> "LBRACE"] @@ [ch \in {"}"} |-> "RBRACE"]
  @@ [ch \in {";"} |-> "SEMICOLON"] @@ [ch \in {","} |-> "COMMA"] @@ [ch \in {"."} |-> "DOT"]
  @@ [ch \in {"="} |-> "ASSIGN_OP"]

RECURSIVE Tokens(_, _, _, _)
\* the loop of tokenize from the position at, with the tokens emitted so far
\* and the flag in_attribute; the outcome is the token list, or the exception
\* raised.  The sources of the driver hold no comment, directive, string or
\* keyword.
Tokens(source, at, tokens, in_attribute) ==
  LET pos == ReadWhile(source, at, {" ", "\t", "\r", "\n"})
      ch == _peek(source, pos)
      ch2 == SubSeq(source, pos, IF pos + 1 <= Len(source) THEN pos + 1 ELSE pos)
      ch3 == SubSeq(source, pos, IF pos + 2 <= Len(source) THEN pos + 2 ELSE Len(ch2) + pos - 1)
      ch3_check == IF pos + 2 <= Len(source) THEN SubSeq(source, pos, pos + 2) ELSE <<>>
      Emit(type, next, flag) ==
        IF type \notin TokenType THEN [tokens |-> tokens, error |-> "AttributeError"]
        ELSE Tokens(source, next,
                    Append(tokens, [type |-> type, value |-> SubSeq(source, pos, next - 1)]), flag)
  IN IF pos > Len(source)
     THEN [tokens |-> Append(tokens, [type |-> "EOF", value |-> <<>>]), error |-> ""]
     ELSE IF ch \in Digits \/ (ch = "'" /\ lower(_peek(source, pos + 1)) \in {"b", "h", "d", "o"})
     THEN Emit("NUMBER", _read_number(source, pos), in_attribute)
     ELSE IF ch \in Letters \cup {"_", "$"}
     THEN Emit("IDENT", ReadWhile(source, pos, Letters \cup Digits \cup {"_", "$"}), in_attribute)
     ELSE IF ch2 = <<"(", "*">> /\ ch3_check # <<"(", "*", ")">>
     THEN Emit("ATTR_BEGIN", pos + 2, TRUE)
     ELSE IF ch2 = <<"*", ")">> /\ in_attribute
     THEN Emit("ATTR_END", pos + 2, FALSE)
     ELSE IF ch3 = <<">", ">", ">">>
     THEN Emit("ARSHIFT", pos + 3, in_attribute)
     ELSE IF \E key \in DOMAIN TWO_CHAR : TWO_CHAR[key] \notin TokenType
     THEN [tokens |-> tokens, error |-> "AttributeError"]
     ELSE IF ch2 \in DOMAIN TWO_CHAR
     THEN Emit(TWO_CHAR[ch2], pos + 2, in_attribute)
     ELSE IF ch \in DOMAIN ONE_CHAR
     THEN Emit(ONE_CHAR[ch], pos + 1, in_attribute)
     ELSE [tokens |-> tokens, error |-> "LexerError"]

tokenize(source) == Tokens(source, 1, <<>>, FALSE)

\* int(digits, base): the value, or -1 for ValueError (no digit, or a
\* character that is no digit of the base)
HexDigits == <<"0", "1", "2", "3", "4", "5", "6", "7", "8", "9", "a", "b", "c", "d", "e", "f">>
DigitValue(ch) == (CHOOSE i \in DOMAIN HexDigits : HexDigits[i] = lower(ch)) - 1

RECURSIVE int(_, _, _)
int(digits, base, value) ==
  IF digits = <<>> THEN value
  ELSE IF lower(Head(digits)) \notin Range(HexDigits) \/ DigitValue(Head(digits)) >= base THEN -1
  ELSE int(Tail(digits), base, value * base + DigitValue(Head(digits)))

\* Parser.resolve_number(raw): (value, width, signed), or ValueError
resolve_number(raw0) ==
  LET raw == SelectSeq(raw0, LAMBDA ch : ch # "_")
      quotes == {i \in DOMAIN raw : raw[i] = "'"}
      quote == CHOOSE i \in quotes : \A j \in quotes : i <= j
      size_str == SubSeq(raw, 1, quote - 1)
      rest0 == SubSeq(raw, quote + 1, Len(raw))
      signed == rest0 # <<>> /\ lower(rest0[1]) = "s"
      rest == IF signed THEN Tail(rest0) ELSE rest0
      base_char == lower(rest[1])
      digits0 == IF Len(rest) > 1 THEN Tail(rest) ELSE <<"0">>
      digits == [i \in DOMAIN digits0 |->
                   IF digits0[i] \in {"x", "X", "z", "Z"} THEN "0" ELSE digits0[i]]
      base == CASE base_char = "b" -> 2 [] base_char = "o" -> 8
                [] base_char = "h" -> 16 [] OTHER -> 10
      width == IF size_str # <<>> THEN int(size_str, 10, 0) ELSE 32
      value == int(digits, base, 0)
      Result(v, w, sg) == IF v = -1 \/ w = -1
                          THEN [value |-> 0, width |-> 0, signed |-> FALSE, error |-> "ValueError"]
                          ELSE [value |-> v, width |-> w, signed |-> sg, error |-> ""]
  IN IF quotes # {}
     THEN IF rest = <<>> THEN Result(0, 32, FALSE)
          ELSE IF size_str # <<>> /\ width = -1 THEN Result(0, -1, FALSE)
          ELSE Result(value, width, signed)
     ELSE Result(IF raw = <<>> THEN -1 ELSE int(raw, 10, 0), 32, FALSE)

\* sized literals <size>'[s]<base><digits>, as their parts
SizedLiterals ==
  [size : {<<"8">>, <<"1", "6">>},
   sign : {<<>>, <<"s">>, <<"S">>},
   base : {"b", "o", "d", "h", "H"},
   digits : {<<"1">>, <<"1", "0", "_", "x", "z">>, <<"1", "7">>, <<"3", "1">>,
             <<"8", "0">>, <<"F", "F">>, <<"a", "_", "Z">>}]

\* the digits of the literal are digits of its base, x or z, or _
WellFormed(lit) ==
  \A i \in DOMAIN lit.digits :
    \/ lit.digits[i] \in {"_", "x", "X", "z", "Z"}
    \/ DigitValue(lit.digits[i]) <
         (CASE lower(lit.base) = "b" -> 2 [] lower(lit.base) = "o" -> 8
            [] lower(lit.base) = "h" -> 16 [] OTHER -> 10)

\* the text of the literal
Lexeme(lit) == lit.size \o <<"'">> \o lit.sign \o <<lit.base>> \o lit.digits

\* lex(text) of a sized literal, then Parser.resolve_number on the value of
\* the first token, which is a NUMBER token
ResolveNumber ==
  /\ pc = "build" /\ cells = <<>> /\ module = NoModule
  /\ \E lit \in {l \in SizedLiterals : WellFormed(l)} :
       LET out == tokenize(Lexeme(lit))
       IN result' = [op |-> "resolve_number",
                     val |-> [literal |-> lit, out |-> out,
                              resolved |-> resolve_number(out.tokens[1].value)]]
  /\ pc' = "asked"
  /\ UNCHANGED <<netvars, wired, net_map, module, optvars>>

\* the texts the driver lexes: every text of at most MaxSource characters
\* over the characters of attributes and of the sensitivity list @(*)
LexAlphabet == {"@", "(", "*", ")", "a", " "}
Sources == UNION {[1..len -> LexAlphabet] : len \in 0..MaxSource}

\* lex(source)
Tokenize ==
  /\ pc = "build" /\ cells = <<>> /\ module = NoModule
  /\ \E source \in Sources :
       result' = [op |-> "tokenize", val |-> [source |-> source, out |-> tokenize(source)]]
  /\ pc' = "asked"
  /\ UNCHANGED <<netvars, wired, net_map, module, optvars>>

\* ------------------------------------------------- constant expressions
\* The outcome of an evaluation: an integer, or the exception that was raised.
Returns(v) == [kind |-> "int", value |-> v]
Raise(exception) == [kind |-> exception, value |-> 0]

RECURSIVE IntBitOp(_, _, _)
\* Python's a & b, a | b, a ^ b on integers of either sign (two's complement
\* with the sign bit repeated without end)
IntBitOp(f, a, b) ==
  IF a \in {0, -1} /\ b \in {0, -1} THEN -f[a % 2][b % 2]
  ELSE f[a % 2][b % 2] + 2 * IntBitOp(f, a \div 2, b \div 2)

\* Python's a // b and a % b for b # 0
FloorDiv(a, b) == IF b > 0 THEN a \div b ELSE (-a) \div (-b)
FloorMod(a, b) == IF b > 0 THEN a % b ELSE -((-a) % (-b))

RECURSIVE _eval_const_expr(_, _)
_eval_const_expr(parameters, expr) ==
  CASE expr.k = "num" -> Returns(expr.value)
    [] expr.k = "id" ->
         IF expr.name \in DOMAIN parameters THEN Returns(parameters[expr.name])
         ELSE Raise("ElaborationError")
    [] expr.k = "bin" ->
         LET left == _eval_const_expr(parameters, expr.l)
             right == _eval_const_expr(parameters, expr.r)
             a == left.value
             b == right.value
             bit(g) == [x \in {0, 1} |-> [y \in {0, 1} |-> IF g[x + 1][y + 1] THEN 1 ELSE 0]]
         IN IF left.kind # "int" THEN left
            ELSE IF right.kind # "int" THEN right
            ELSE CASE expr.op = "+" -> Returns(a + b)
                   [] expr.op = "-" -> Returns(a - b)
                   [] expr.op = "*" -> Returns(a * b)
                   [] expr.op = "/" -> IF b = 0 THEN Raise("ZeroDivisionError")
                                       ELSE Returns(FloorDiv(a, b))
                   [] expr.op = "%" -> IF b = 0 THEN Raise("ZeroDivisionError")
                                       ELSE Returns(FloorMod(a, b))
                   [] expr.op = "&" ->
                        Returns(IntBitOp(bit(<<<<FALSE, FALSE>>, <<FALSE, TRUE>>>>), a, b))
                   [] expr.op = "|" ->
                        Returns(IntBitOp(bit(<<<<FALSE, TRUE>>, <<TRUE, TRUE>>>>), a, b))
                   [] expr.op = "^" ->
                        Returns(IntBitOp(bit(<<<<FALSE, TRUE>>, <<TRUE, FALSE>>>>), a, b))
                   [] expr.op = "<<" -> IF b < 0 THEN Raise("ValueError") ELSE Returns(a * Pow2(b))
                   [] expr.op = ">>" -> IF b < 0 THEN Raise("ValueError") ELSE Returns(a \div Pow2(b))
                   [] OTHER -> Raise("ElaborationError")
    [] OTHER -> Raise("ElaborationError")

RECURSIVE _resolve_parameters(_, _)
\* the parameter map after the declarations decls, or the exception raised
_resolve_parameters(parameters, decls) ==
  IF decls = <<>> THEN [kind |-> "int", value |-> parameters]
  ELSE LET v == _eval_const_expr(parameters, Head(decls).value)
       IN IF v.kind # "int" THEN v
          ELSE _resolve_parameters((Head(decls).name :> v.value) @@ parameters, Tail(decls))

\* parameter P = 2 or 0 - 1; localparam L = l op r, over literals, P and the
\* undefined name Q
Num(v) == [k |-> "num", value |-> v, width |-> 32]
ConstOps == {"+", "-", "*", "/", "%", "&", "|", "^", "<<", ">>", "**"}
ConstAtoms == {Num(0), Num(1), Num(3), Id("P"), Id("Q")}
ParamDecls ==
  {<<[name |-> "P", value |-> p],
     [name |-> "L", value |-> [k |-> "bin", op |-> op, l |-> l, r |-> r]]>> :
       p \in {Num(2), [k |-> "bin", op |-> "-", l |-> Num(0), r |-> Num(1)]},
       op \in ConstOps, l \in ConstAtoms, r \in ConstAtoms}

\* elaborate() of a module with parameters: phase 1, which no handler surrounds
ResolveParameters ==
  /\ pc = "build" /\ cells = <<>> /\ module = NoModule
  /\ \E decls \in ParamDecls :
       LET r == _resolve_parameters(<<>>, decls)
       IN /\ result' = [op |-> "_resolve_parameters", val |-> [params |-> decls, out |-> r]]
          /\ pc' = IF r.kind = "int" THEN "asked" ELSE "failed"
  /\ UNCHANGED <<netvars, wired, net_map, module, optvars>>

ElaborateReturn ==
  /\ pc = "elab"
  /\ pc' = "idle"
  /\ UNCHANGED <<netvars, wired, net_map, module, optvars, result>>

\* ------------------------------------------------------------- queries
Returned == (pc = "idle" \/ (pc = "build" /\ cells # <<>>)) /\ ~err
Queried == pc = "asked" /\ ~err

TopologicalSort ==
  /\ Returned \/ Queried
  /\ SetNL(topological_sort(NL))
  /\ result' = [op |-> "topological_sort", val |-> topological_sort(NL).order]
  /\ pc' = "asked"
  /\ UNCHANGED <<wired, net_map, module, optvars>>

DetectCombinationalLoops ==
  /\ Returned \/ Queried
  /\ result' = [op |-> "detect_combinational_loops", val |-> detect_combinational_loops(NL)]
  /\ pc' = "asked"
  /\ UNCHANGED <<netvars, wired, net_map, module, optvars>>

CriticalPathDepth ==
  /\ Returned \/ Queried
  /\ result' = [op |-> "critical_path_depth", val |-> critical_path_depth(NL)]
  /\ pc' = "asked"
  /\ UNCHANGED <<netvars, wired, net_map, module, optvars>>

\* -------------------------------------- single calls on a built netlist
\* One further call of the netlist API on a netlist the driver has built;
\* the call and its arguments are recorded in result.
Built == pc = "build" /\ cells # <<>> /\ ~err

CallDone(op, val) ==
  /\ result' = [op |-> op, val |-> val]
  /\ pc' = "asked"
  /\ UNCHANGED <<net_map, module, optvars>>

FindDeadCells ==
  /\ Built
  /\ CallDone("find_dead_cells", find_dead_cells(NL))
  /\ UNCHANGED <<netvars, wired>>

RemoveDeadLogic ==
  /\ Built
  /\ \E cs \in Orderings(find_dead_cells(NL)) :
       /\ SetNL(remove_dead_logic(NL, cs).nl)
       /\ CallDone("remove_dead_logic", remove_dead_logic(NL, cs).count)
  /\ UNCHANGED wired

RemoveCell ==
  /\ Built
  /\ \E c \in Range(cells) :
       /\ SetNL(remove_cell(NL, c))
       /\ CallDone("remove_cell", c)
  /\ UNCHANGED wired

\* connect(d, s, net) with a net of the netlist supplied, s the next free input pin
ConnectNetStep(d, s, net) ==
  /\ Built /\ wired < Len(AllInPins(NL, cells))
  /\ s = AllInPins(NL, cells)[wired + 1]
  /\ SetNL(connect_with(NL, d, s, net))
  /\ CallDone("connect", <<d, s, net>>)
  /\ wired' = wired + 1

ConnectNet == \E d \in DriverPins(NL), s \in DOMAIN pinNet, net \in nets : ConnectNetStep(d, s, net)

\* connect(d, s) once more for the input pin s connected last
Reconnect ==
  /\ Built /\ wired > 0
  /\ \E d \in DriverPins(NL) :
       /\ SetNL(connect(NL, d, AllInPins(NL, cells)[wired]))
       /\ CallDone("connect", <<d, AllInPins(NL, cells)[wired], NoNet>>)
  /\ UNCHANGED wired

\* net.add_sink(s) called on a net of the netlist, after topological_sort
\* has filled the cache; s is the next free input pin
NetAddSink ==
  /\ Queried /\ result.op = "topological_sort" /\ history = <<>> /\ module = NoModule
  /\ wired < Len(AllInPins(NL, cells))
  /\ \E net \in nets :
       /\ SetNL(add_sink(NL, net, AllInPins(NL, cells)[wired + 1]))
       /\ CallDone("add_sink", <<net, AllInPins(NL, cells)[wired + 1]>>)
  /\ wired' = wired + 1

\* ------------------------------------------------------------ optimize()
Optimize ==
  /\ Returned /\ Len(history) < MaxRuns
  /\ \E ps \in {DefaultPasses} \cup {<<p>> : p \in PassNames} :
       /\ history # <<>> => (ps = DefaultPasses /\ history[Len(history)] = DefaultPasses)
       /\ passes' = ps
       /\ history' = Append(history, ps)
  /\ pc' = "opt" /\ stats' = NoStats /\ propagated' = 0 /\ before' = NL
  /\ result' = NoResult
  /\ UNCHANGED <<netvars, wired, net_map, module>>

\* optimize(passes=[p]) for one of the two local rewriting passes
OptimizeArith ==
  /\ Built /\ history = <<>>
  /\ \E p \in {"identity", "strength_reduce"} :
       passes' = <<p>> /\ history' = <<<<p>>>>
  /\ pc' = "opt" /\ stats' = NoStats /\ propagated' = 0 /\ before' = NL
  /\ UNCHANGED <<netvars, wired, net_map, module, result>>

\* optimize(passes=["constant_prop"])
OptimizeFold ==
  /\ Built /\ history = <<>>
  /\ passes' = <<"constant_prop">> /\ history' = <<<<"constant_prop">>>>
  /\ pc' = "opt" /\ stats' = NoStats /\ propagated' = 0 /\ before' = NL
  /\ UNCHANGED <<netvars, wired, net_map, module, result>>

\* optimize(passes=["cse"])
OptimizeCse ==
  /\ Built /\ history = <<>>
  /\ passes' = <<"cse">> /\ history' = <<<<"cse">>>>
  /\ pc' = "opt" /\ stats' = NoStats /\ propagated' = 0 /\ before' = NL
  /\ UNCHANGED <<netvars, wired, net_map, module, result>>

Running(p) == pc = "opt" /\ ~err /\ passes # <<>> /\ Head(passes) = p

\* the pass p ended with the netlist n and the counter count
PassDone(p, r) ==
  /\ SetNL(r.nl)
  /\ stats' = [stats EXCEPT ![p] = r.count]
  /\ passes' = Tail(passes)
  /\ pc' = IF Tail(passes) = <<>> /\ ~r.nl.err THEN "idle" ELSE "opt"
  /\ propagated' = 0
  /\ UNCHANGED <<wired, net_map, module, history, before, result>>

IdentityElimination ==
  Running("identity") /\ PassDone("identity", identity_elimination(NL))

AlgebraicSimplification ==
  Running("algebraic") /\ PassDone("algebraic", algebraic_simplification(NL))

ConstantPropagationRound ==
  /\ Running("constant_prop") /\ CpCandidates(NL) # <<>>
  /\ propagated < MaxPropagated
  /\ SetNL(CpRound(NL))
  /\ propagated' = propagated + Len(CpCandidates(NL))
  /\ UNCHANGED <<pc, wired, net_map, module, passes, stats, history, before, result>>

ConstantPropagationReturn ==
  /\ Running("constant_prop") /\ CpCandidates(NL) = <<>>
  /\ PassDone("constant_prop", [nl |-> NL, count |-> propagated])

StrengthReduction ==
  Running("strength_reduce") /\ PassDone("strength_reduce", strength_reduction(NL))

DeadCodeElimination ==
  Running("dead_code") /\ PassDone("dead_code", dead_code_elimination(NL))

CommonSubexpressionElimination ==
  Running("cse") /\ PassDone("cse", common_subexpression_elimination(NL))

Next ==
  \/ AddModuleInput \/ AddModuleOutput \/ CreateCell \/ Connect
  \/ TopologicalSort \/ DetectCombinationalLoops
  \/ Optimize
  \/ IdentityElimination \/ AlgebraicSimplification
  \/ ConstantPropagationRound \/ ConstantPropagationReturn
  \/ StrengthReduction \/ DeadCodeElimination \/ CommonSubexpressionElimination

Spec == Init /\ [][Next]_vars

\* the same netlist operations on netlists that elaborate() returns
NextElab ==
  \/ ElaborateModule \/ ElaborateAssign \/ ElaborateCombinationalAlways
  \/ ElaborateSequentialAlways \/ ElaborateInstance \/ ElaborateReturn
  \/ TopologicalSort \/ DetectCombinationalLoops \/ CriticalPathDepth
  \/ Optimize
  \/ IdentityElimination \/ AlgebraicSimplification
  \/ ConstantPropagationRound \/ ConstantPropagationReturn
  \/ StrengthReduction \/ DeadCodeElimination \/ CommonSubexpressionElimination

SpecElab == Init /\ [][NextElab]_vars

\* the netlist API alone: a netlist is built, then single calls are made on it
NextApi ==
  \/ AddModuleInput \/ AddModuleOutput \/ CreateCell \/ Connect
  \/ FindDeadCells \/ RemoveDeadLogic \/ RemoveCell
  \/ ConnectNet \/ Reconnect \/ NetAddSink
  \/ TopologicalSort

SpecApi == Init /\ [][NextApi]_vars

\* identity_elimination and strength_reduction on arithmetic netlists
NextArith ==
  \/ AddModuleInput \/ AddModuleOutput \/ CreateArithCell \/ Connect
  \/ OptimizeArith \/ IdentityElimination \/ StrengthReduction

SpecArith == Init /\ [][NextArith]_vars

\* stateful and attributed cells and the cse pass
NextCse ==
  \/ AddModuleInput \/ AddModuleOutput \/ CreateCseCell \/ Connect
  \/ OptimizeCse \/ CommonSubexpressionElimination

SpecCse == Init /\ [][NextCse]_vars

\* constant expressions in parameter declarations
\* constant propagation on netlists of constants and operator cells
NextFold ==
  \/ AddModuleOutput \/ CreateFoldCell \/ Connect
  \/ OptimizeFold \/ ConstantPropagationRound \/ ConstantPropagationReturn

SpecFold == Init /\ [][NextFold]_vars

NextConst == ResolveParameters

SpecConst == Init /\ [][NextConst]_vars

\* the lexer
NextLex == Tokenize \/ ResolveNumber

SpecLex == Init /\ [][NextLex]_vars

\* ============================================================ properties
Present(c) == c \in Range(cells)
Idle == pc = "idle" /\ history # <<>>
AfterDefaultRun == Idle /\ history[Len(history)] = DefaultPasses

\* the input pins on the output net of c whose cells the round keeps are,
\* after the round, sinks of a stored net whose driver is the output pin of
\* a new CONST cell that carries the value computed for c
ReplacedKeepsSinks(c) ==
  LET net == OutputNet(NL, c)
      K == _evaluate_cell(NL, c)
  IN net # NoNet =>
       \A p \in Range(netTab[net].sinks) :
         p[1] \in Range(cells') =>
           /\ pinNet'[p] \in nets'
           /\ p \in Range(netTab'[pinNet'[p]].sinks)
           /\ LET d == netTab'[pinNet'[p]].driver
              IN /\ d # NoPin
                 /\ d[1] \in Range(cells') \ Range(cells)
                 /\ cellTab'[d[1]].op = "CONST"
                 /\ cellTab'[d[1]].value = K

\* C1: when constant_propagation replaces a cell X (not I/O, not CONST, every
\* input driven by a CONST) by a new CONST cell K, every input pin that was a
\* sink of X's output net is afterwards a sink of a net stored in the netlist
\* whose driver is K's output pin.
C1_ConstantKeepsSinks ==
  [][ConstantPropagationRound =>
       \A c \in Range(CpCandidates(NL)) : ReplacedKeepsSinks(c)]_vars

\* some input pin of the cell o is on a net that has a driver
Driven(n, o) ==
  \E p \in Range(InPins(n, o)) :
    NetOf(n, p) # NoNet /\ n.netTab[NetOf(n, p)].driver # NoPin

\* C3: optimize() with the default pass list removes no entry of
\* netlist.outputs, and every MODULE_OUTPUT cell whose input pin was driven
\* before the call is driven after it.
C3_OutputsKept ==
  AfterDefaultRun =>
    /\ before.outputs \subseteq outputs
    /\ \A o \in before.outputs : Driven(before, o) => Driven(NL, o)

\* the edges of the netlist: u drives a net that a pin of v sinks
Edges(n) ==
  {e \in Range(n.cells) \X Range(n.cells) :
     \E p \in Range(OutPins(n, e[1])) :
       /\ NetOf(n, p) # NoNet
       /\ \E s \in Range(n.netTab[NetOf(n, p)].sinks) : s[1] = e[2]}

\* all edges but those that enter the D input of a sequential cell
EdgesButD(n) ==
  {e \in Range(n.cells) \X Range(n.cells) :
     \E p \in Range(OutPins(n, e[1])) :
       /\ NetOf(n, p) # NoNet
       /\ \E s \in Range(n.netTab[NetOf(n, p)].sinks) :
            s[1] = e[2] /\ ~(IsSeq(n, e[2]) /\ s[2] = "D")}

\* all edges but those that enter a sequential cell
EdgesButSeq(n) == {e \in Edges(n) : ~IsSeq(n, e[2])}

RECURSIVE Closure(_)
\* the transitive closure of the relation E
Closure(E) ==
  LET E2 == E \cup {x \in {e[1] : e \in E} \X {e[2] : e \in E} :
                      \E e \in E, f \in E : e[2] = f[1] /\ x = <<e[1], f[2]>>}
  IN IF E2 = E THEN E ELSE Closure(E2)

Acyclic(E) == \A e \in Closure(E) : e[1] # e[2]

Pos(order, c) == CHOOSE i \in DOMAIN order : order[i] = c

\* C5: on a netlist built with add_cell/connect whose combinational subgraph
\* (all edges but those that enter a sequential cell's D input) is acyclic,
\* topological_sort returns every cell exactly once, with u before v for
\* every edge u -> v of that subgraph; a flip-flop therefore precedes the
\* cells its Q output drives.
C5_TopologicalOrder ==
  (result.op = "topological_sort" /\ history = <<>> /\ Acyclic(EdgesButD(NL))) =>
    /\ Len(result.val) = Len(cells)
    /\ Range(result.val) = Range(cells)
    /\ \A e \in EdgesButD(NL) : Pos(result.val, e[1]) < Pos(result.val, e[2])

\* the strongly connected components of the graph E over the stored cells
Sccs(n, E) ==
  LET R == Closure(E)
  IN {{d \in Range(n.cells) : d = c \/ (<<c, d>> \in R /\ <<d, c>> \in R)} : c \in Range(n.cells)}

\* C7: detect_combinational_loops returns exactly the strongly connected
\* components of size at least two of the combinational subgraph (all edges
\* but those that enter a sequential cell): one component for two cells that
\* drive each other, none for an acyclic netlist, none for a cycle through a
\* flip-flop.
C7_LoopsAreSccs ==
  result.op = "detect_combinational_loops" =>
    /\ {Range(result.val[i]) : i \in DOMAIN result.val}
         = {S \in Sccs(NL, EdgesButSeq(NL)) : Cardinality(S) >= 2}
    /\ \A i, j \in DOMAIN result.val :
         i # j => Range(result.val[i]) # Range(result.val[j])
    /\ \A i \in DOMAIN result.val : Len(result.val[i]) = Cardinality(Range(result.val[i]))

\* two cells that drive each other were reported as one loop
C7_LoopReported ==
  /\ result.op = "detect_combinational_loops"
  /\ Len(result.val) = 1
  /\ \E u, v \in Range(cells) :
       /\ u # v /\ Range(result.val[1]) = {u, v}
       /\ <<u, v>> \in Edges(NL) /\ <<v, u>> \in Edges(NL)

\* the cells, nets and connections of two netlists are the same
SameNetlist(n, m) ==
  /\ n.cells = m.cells /\ n.nets = m.nets
  /\ n.inputs = m.inputs /\ n.outputs = m.outputs
  /\ n.cellTab = m.cellTab /\ n.netTab = m.netTab /\ n.pinNet = m.pinNet

\* C8: a second full optimize() run on a netlist that one full run has
\* optimized reports zero rewrites for every pass and leaves the netlist
\* unchanged.
C8_SecondRunIdle ==
  (AfterDefaultRun /\ Len(history) = 2) =>
    /\ \A p \in PassNames : stats[p] = 0
    /\ SameNetlist(NL, before)

\* c computes a value from driven inputs and holds no state (a CONST cell has
\* no inputs to compare and is left out)
Mergeable(n, c) ==
  /\ n.cellTab[c].op \notin IoOps \cup SeqOps \cup {"MEMRD", "MEMWR", "CONST"}
  /\ \A p \in Range(InPins(n, c)) : DriverOf(n, p) # NoPin

\* same operation, same attributes, same driver on every input pin
Identical(n, c, d) ==
  /\ Mergeable(n, c) /\ Mergeable(n, d)
  /\ n.cellTab[c].op = n.cellTab[d].op
  /\ n.cellTab[c].value = n.cellTab[d].value
  /\ n.cellTab[c].ins = n.cellTab[d].ins
  /\ \A i \in DOMAIN n.cellTab[c].ins :
       DriverOf(n, InPins(n, c)[i]) = DriverOf(n, InPins(n, d)[i])

\* the sinks of the output net of c, none when the output is unconnected
OutputSinks(n, c) ==
  IF OutputNet(n, c) = NoNet THEN {} ELSE Range(n.netTab[OutputNet(n, c)].sinks)

\* C9: common_subexpression_elimination on a netlist holding two identical
\* non-stateful cells leaves exactly the earlier of the two, and every sink of
\* either cell's output net ends on the survivor's output net.
C9_CseKeepsEarlier ==
  [][CommonSubexpressionElimination =>
       \A i, j \in DOMAIN cells :
         (i < j /\ Identical(NL, cells[i], cells[j])
                /\ \A k \in 1..(i - 1) : ~Identical(NL, cells[k], cells[i])) =>
           /\ cells[i] \in Range(cells') /\ cells[j] \notin Range(cells')
           /\ pinNet'[OutputPin(NL, cells[i])] \in nets'
           /\ \A p \in OutputSinks(NL, cells[i]) \cup OutputSinks(NL, cells[j]) :
                /\ pinNet'[p] = pinNet'[OutputPin(NL, cells[i])]
                /\ p \in Range(netTab'[pinNet'[p]].sinks)]_vars

\* the driver of an input pin leads from the driver's cell to the pin's cell
FaninEdges(n) ==
  {e \in (DOMAIN n.cellTab) \X (DOMAIN n.cellTab) :
     \E p \in Range(InPins(n, e[2])) : DriverOf(n, p) # NoPin /\ DriverOf(n, p)[1] = e[1]}

\* the cells from which a MODULE_OUTPUT cell is reached, the outputs included
ReachesOutput(n) ==
  LET R == Closure(FaninEdges(n))
  IN n.outputs \cup {c \in DOMAIN n.cellTab : \E o \in n.outputs : <<c, o>> \in R}

Unreachable(n) ==
  LET live == ReachesOutput(n)
  IN {c \in Range(n.cells) : c \notin live /\ n.cellTab[c].op \notin IoOps}

\* C10: dead_code_elimination removes exactly the non-I/O cells from which
\* no MODULE_OUTPUT cell is reached, returns their number, removes no
\* MODULE_INPUT or MODULE_OUTPUT cell, and leaves the driver of every input
\* pin of a remaining cell as it was.
C10_DeadCodeExact ==
  [][DeadCodeElimination =>
       LET dead == Unreachable(NL) IN
       /\ Range(cells') = Range(cells) \ dead
       /\ stats'["dead_code"] = Cardinality(dead)
       /\ \A c \in Range(cells) : cellTab[c].op \in IoOps => c \in Range(cells')
       /\ inputs' = inputs /\ outputs' = outputs
       /\ \A c \in Range(cells') : \A q \in Range(InPins(NL, c)) :
            /\ pinNet'[q] = pinNet[q]
            /\ pinNet[q] # NoNet => netTab'[pinNet[q]].driver = netTab[pinNet[q]].driver]_vars

\* dead_code_elimination removed a dead cell and kept a live logic cell that
\* drives a module output
C10_DeadRemovedLiveKept ==
  /\ history = <<<<"dead_code">>>> /\ pc = "idle"
  /\ stats["dead_code"] >= 1
  /\ Len(cells) < Len(before.cells)
  /\ \E c \in Range(cells), o \in outputs :
       cellTab[c].op \notin IoOps /\ <<c, o>> \in FaninEdges(NL)

\* elaborate() has returned the netlist and no pass has run on it
Elaborated == pc = "idle" /\ module # NoModule /\ history = <<>>

\* every output port of the module is the target of an assign or an always
\* block, and the net bound to its name has a driver
OutputsAssigned ==
  \A s \in Signals : module.decl[s] = "output" =>
    /\ \E i \in DOMAIN module.body :
         module.body[i].k # "instance" /\ module.body[i].lhs = s
    /\ net_map[s] # NoNet
    /\ netTab[net_map[s]].driver # NoPin

\* C2: in the netlist elaborate returns for a module whose output ports are
\* all assigned, every MODULE_OUTPUT cell has a driver: its input pin A is on
\* a net whose driver pin is set.
C2_OutputsDriven ==
  (Elaborated /\ OutputsAssigned) => \A o \in outputs : Driven(NL, o)

\* C4: in the netlist elaborate returns, and after any optimizer passes on
\* it, the driver pin (when set) and the sink pins of every stored net belong
\* to cells in the netlist's cell table.
C4_NetsReferToCells ==
  (pc = "idle" /\ module # NoModule) =>
    \A net \in nets :
      /\ netTab[net].driver # NoPin => Present(netTab[net].driver[1])
      /\ \A p \in Range(netTab[net].sinks) : Present(p[1])

\* the driver-to-sink edges of the stored nets, but those that enter the D
\* input of a sequential cell
NetEdgesButD(n) ==
  {e \in (DOMAIN n.cellTab) \X (DOMAIN n.cellTab) :
     \E net \in n.nets :
       /\ n.netTab[net].driver # NoPin /\ n.netTab[net].driver[1] = e[1]
       /\ \E p \in Range(n.netTab[net].sinks) :
            p[1] = e[2] /\ ~(IsSeq(n, e[2]) /\ p[2] = "D")}

\* C6: the combinational subgraph of every netlist elaborate returns (all
\* driver-to-sink edges but those entering the data input of a sequential
\* cell) is acyclic, for every body of continuous assigns and always blocks,
\* also when the assignments read each other's left-hand signals.
C6_ElaboratedAcyclic ==
  Elaborated => Acyclic(NetEdgesButD(NL))

\* C11: find_dead_cells returns exactly the non-I/O cells from which no
\* MODULE_OUTPUT cell is reached and so never a MODULE_INPUT or MODULE_OUTPUT
\* cell; remove_dead_logic removes no MODULE_INPUT or MODULE_OUTPUT cell and
\* leaves the netlist's inputs and outputs as they were.
C11_DeadCellsNeverIo ==
  [][/\ FindDeadCells =>
          /\ result'.val = Unreachable(NL)
          /\ \A c \in result'.val : cellTab[c].op \notin IoOps
     /\ RemoveDeadLogic =>
          /\ inputs' = inputs /\ outputs' = outputs
          /\ \A c \in Range(cells) : cellTab[c].op \in IoOps => c \in Range(cells')]_vars

\* the pins of cell c
PinsOf(n, c) == Range(InPins(n, c)) \cup Range(OutPins(n, c))

\* C12: after remove_cell(c) the cell is in neither the cell table nor the
\* input and output maps, every pin of c references no net, no net has a pin
\* of c as its driver or among its sinks, and no net that c's pins were on is
\* stored with neither a driver nor sinks.
C12_RemoveCellDisconnects ==
  result.op = "remove_cell" =>
    LET c == result.val IN
    /\ c \notin Range(cells) /\ c \notin inputs /\ c \notin outputs
    /\ \A p \in PinsOf(NL, c) : pinNet[p] = NoNet
    /\ \A net \in DOMAIN netTab : \A p \in PinsOf(NL, c) :
         netTab[net].driver # p /\ p \notin Range(netTab[net].sinks)
    /\ \A net \in nets : netTab[net].driver # NoPin \/ netTab[net].sinks # <<>>

\* the netlist's cells, nets and pins are as they were
NetlistUnchanged ==
  UNCHANGED <<cellTab, netTab, pinNet, cells, nets, inputs, outputs>>

\* C13: connect(driver_pin, sink_pin, net) fails and leaves the netlist
\* unchanged when driver_pin is already on a net other than the supplied one
\* or the supplied net has another driver; connect without a net puts the
\* sink on the driver's net when the driver has one and on a new net driven
\* by driver_pin otherwise.
C13_ConnectRejectsConflict ==
  [][/\ \A d \in DriverPins(NL), s \in DOMAIN pinNet, net \in nets :
          (/\ ConnectNetStep(d, s, net)
           /\ \/ pinNet[d] \notin {NoNet, net}
              \/ netTab[net].driver \notin {NoPin, d})
          => (err' /\ NetlistUnchanged)
     /\ Connect =>
          LET s == AllInPins(NL, cells)[wired + 1] IN
          \E d \in DriverPins(NL) :
            IF pinNet[d] # NoNet
              THEN pinNet'[s] = pinNet[d] /\ Len(netTab') = Len(netTab)
              ELSE /\ Len(netTab') = Len(netTab) + 1
                   /\ pinNet'[s] = Len(netTab') /\ pinNet'[d] = Len(netTab')
                   /\ netTab'[Len(netTab')].driver = d]_vars

\* how many times pin p stands in the sequence ss
Occurrences(ss, p) == Cardinality({i \in DOMAIN ss : ss[i] = p})

\* the stored nets that list pin p among their sinks
SinkNets(n, p) == {net \in n.nets : p \in Range(n.netTab[net].sinks)}

\* C14: after any sequence of connect calls every input pin of a stored cell
\* is in the sink list of at most one net, at most once there, and that net
\* is the pin's net; this also holds after connect is called for a sink pin
\* that is already connected.
C14_SinkListedOnce ==
  (pc = "build" \/ result.op = "connect") =>
    \A p \in Range(AllInPins(NL, cells)) :
      /\ Cardinality(SinkNets(NL, p)) <= 1
      /\ \A net \in SinkNets(NL, p) :
           Occurrences(netTab[net].sinks, p) = 1 /\ pinNet[p] = net

\* C19: topological_sort never returns a stale cached order: whatever calls
\* changed the structure before (add_cell, connect, remove_cell, or
\* Net.add_sink called directly), it returns the order computed from the
\* netlist as it is now; called twice in a row it returns the same sequence.
C19_OrderNeverStale ==
  [][TopologicalSort =>
       /\ result'.val = ComputeOrder(NL)
       /\ result.op = "topological_sort" => result'.val = result.val]_vars

\* C20: constant_propagation terminates on every netlist and raises no
\* error, also when a cell with all-constant inputs has an unconnected
\* output pin. The loop body is a function of the netlist alone, so the call
\* returns only if no round of the loop that found a cell to replace leaves
\* the netlist as it found it.
C20_ConstantPropagationTerminates ==
  [][ConstantPropagationRound => (~err' /\ ~NetlistUnchanged)]_vars

\* cell c is a MUL with a power-of-two constant on pin name, its other
\* operand and its output connected, and it does not feed itself
MulByPow2(n, c, name) ==
  /\ n.cellTab[c].op = "MUL" /\ Pow2Pin(n, c, name)
  /\ NetOf(n, <<c, OtherPin(n, c, name)>>) # NoNet
  /\ OutputNet(n, c) # NoNet
  /\ \A p \in OutputSinks(n, c) : p[1] # c

\* the n with 2^n = v
Log2(v) == CHOOSE k \in 0..v : Pow2(k) = v

\* C15: strength_reduction replaces every connected MUL cell that has a
\* CONST input 2^n (and is not its own operand) by an SHL cell: the SHL's A input is a sink of the other
\* operand's net, its B input is driven by a new CONST of value n, every pin
\* that was a sink of the MUL's output net is afterwards driven by the SHL's
\* output pin, and the MUL is gone.
C15_MulBecomesShift ==
  [][StrengthReduction =>
       \A c \in Range(cells) : \A name \in {"A", "B"} :
         (MulByPow2(NL, c, name) /\ (name = "B" => ~Pow2Pin(NL, c, "A"))) =>
           /\ c \notin Range(cells')
           /\ \E sh \in Range(cells') \ Range(cells) :
                /\ cellTab'[sh].op = "SHL"
                /\ pinNet'[<<sh, "A">>] = pinNet[<<c, OtherPin(NL, c, name)>>]
                /\ <<sh, "A">> \in Range(netTab'[pinNet'[<<sh, "A">>]].sinks)
                /\ \E k \in Range(cells') \ Range(cells) :
                     /\ cellTab'[k].op = "CONST"
                     /\ cellTab'[k].value = Log2(ConstValue(NL, DriverOf(NL, <<c, name>>)[1]))
                     /\ pinNet'[<<sh, "B">>] # NoNet
                     /\ netTab'[pinNet'[<<sh, "B">>]].driver = <<k, "Y">>
                /\ \A p \in OutputSinks(NL, c) :
                     /\ pinNet'[p] \in nets'
                     /\ netTab'[pinNet'[p]].driver = <<sh, "Y">>]_vars

\* the constant that drives pin <<c, name>>, or None
ConstOn(n, c, name) ==
  IF HasConstDriver(n, <<c, name>>) THEN ConstValue(n, DriverOf(n, <<c, name>>)[1]) ELSE None

\* the operands x of cell c for which c computes the identity
IdentityOperands(n, c) ==
  LET op == n.cellTab[c].op
      unit(name) ==
        CASE op = "AND" -> ConstOn(n, c, name) = Pow2(n.cellTab[c].w) - 1
          [] op \in {"OR", "XOR", "ADD"} -> ConstOn(n, c, name) = 0
          [] op \in {"SUB", "SHL", "SHR"} -> name = "B" /\ ConstOn(n, c, name) = 0
          [] OTHER -> FALSE
  IN {x \in {"A", "B"} : n.cellTab[c].ins = <<"A", "B">> /\ unit(IF x = "A" THEN "B" ELSE "A")}

IsIdentity(n, c) == IdentityOperands(n, c) # {}

RECURSIVE OperandDrivers(_, _, _)
\* the pins that drive x for an identity cell c, followed through a chain of
\* at most k identity cells
OperandDrivers(n, c, k) ==
  UNION {LET d == DriverOf(n, <<c, x>>)
         IN IF d # NoPin /\ d[1] \in Range(n.cells) /\ IsIdentity(n, d[1]) /\ k > 0
            THEN OperandDrivers(n, d[1], k - 1) ELSE {d} : x \in IdentityOperands(n, c)}

\* both operands of c are driven, and following x through identity cells
\* ends at a cell that is none (c is on no cycle of identity cells)
OperandsDriven(n, c) ==
  /\ \A x \in {"A", "B"} : DriverOf(n, <<c, x>>) # NoPin
  /\ \A d \in OperandDrivers(n, c, MaxOps) : d # NoPin /\ ~IsIdentity(n, d[1])

\* C16: identity_elimination removes every AND with an all-ones constant,
\* every OR/XOR/ADD with a constant 0 on either input and every SUB/SHL/SHR
\* with a constant 0 on B (operands driven), a chain of such cells included,
\* and every former sink of a removed cell's output net is afterwards on the
\* net of the other operand x and driven by x's driver; a SUB/SHL/SHR with 0
\* only on A stays, with the constant on A.
C16_IdentityRemoved ==
  [][IdentityElimination =>
       \A c \in Range(cells) :
         /\ (IsIdentity(NL, c) /\ OperandsDriven(NL, c)) =>
              /\ c \notin Range(cells')
              /\ \A p \in OutputSinks(NL, c) : p[1] \in Range(cells') =>
                   /\ pinNet'[p] \in nets'
                   /\ p \in Range(netTab'[pinNet'[p]].sinks)
                   /\ netTab'[pinNet'[p]].driver \in OperandDrivers(NL, c, MaxOps)
         /\ (cellTab[c].op = "SUB" /\ ConstOn(NL, c, "A") = 0 /\ ~IsIdentity(NL, c)) =>
              /\ c \in Range(cells')
              /\ pinNet'[<<c, "A">>] = pinNet[<<c, "A">>]]_vars

\* the cell kind the sequential block `item` calls for: DFFR when a reset is
\* named in the sensitivity list and the assignment is the else branch of
\* the check of that reset, DFF otherwise
RegisterKind(item) ==
  IF item.rst # NoSignal /\ item.form = "if" /\ item.cond = item.rst THEN "DFFR" ELSE "DFF"

\* pin D of cell d is on the net of the expression e
DrivenByRhs(d, e) ==
  LET net == pinNet'[<<d, "D">>] IN
  /\ net # NoNet /\ <<d, "D">> \in Range(netTab'[net].sinks)
  /\ CASE e.k = "id" -> net = net_map'[e.name]
       [] e.k = "num" -> /\ netTab'[net].driver # NoPin
                         /\ cellTab'[netTab'[net].driver[1]].op = "CONST"
                         /\ cellTab'[netTab'[net].driver[1]].value = e.value
       [] OTHER -> /\ netTab'[net].driver # NoPin
                   /\ cellTab'[netTab'[net].driver[1]].op = "NOT"

\* C17: for the non-blocking assignment `lhs <= rhs` of a sequential always
\* block (clock and reset declared) elaboration creates one flip-flop: a
\* DFFR with pins CLK, D, RST and Q and the reset net on RST when a reset is
\* in the sensitivity list and the assignment is the else branch of
\* `if (!rst)`, a DFF with pins CLK, D and Q otherwise; the clock net is on
\* CLK, the right-hand side drives D and Q drives the register's net.
C17_RegisterInference ==
  [][(ElaborateSequentialAlways /\ pc' = "elab") =>
       LET item == module'.body[Len(module'.body)]
           kind == RegisterKind(item)
           made == {d \in Range(cells') \ Range(cells) : cellTab'[d].op \in SeqOps}
       IN (item.rst # NoSignal => net_map[item.rst] # NoNet) =>
          /\ Cardinality(made) = 1
          /\ \A d \in made :
               /\ cellTab'[d].op = kind
               /\ cellTab'[d].outs = <<"Q">>
               /\ Range(cellTab'[d].ins) =
                    IF kind = "DFFR" THEN {"CLK", "D", "RST"} ELSE {"CLK", "D"}
               /\ kind = "DFFR" => pinNet'[<<d, "RST">>] = net_map'[item.rst]
               /\ pinNet'[<<d, "CLK">>] = net_map'[item.clk]
               /\ DrivenByRhs(d, item.rhs)
               /\ netTab'[net_map'[item.lhs]].driver = <<d, "Q">>]_vars

\* the cells of the netlist that were not in it before the step
AddedCells == Range(cells') \ Range(cells)

\* C18: elaborating an instance of a child module flattens the child into the
\* netlist of the top module: the step adds the cell of the child's body (the
\* NOT of assign b = ~a, named with the instance name and a dot in front) and
\* the elaboration does not fail.
C18_InstanceFlattened ==
  [][ElaborateInstance =>
       /\ pc' = "elab"
       /\ \E c \in AddedCells : cellTab'[c].op = "NOT"]_vars

\* the depth a cell has by the rule: 0 for module inputs and flip-flops, else
\* one more than the largest depth among the cells that drive its input pins
DepthByRule(n, depth, c) ==
  LET ds == {DriverOf(n, p)[1] : p \in {q \in Range(InPins(n, c)) : DriverOf(n, q) # NoPin}}
  IN IF c \in n.inputs \/ IsSeq(n, c) THEN 0
     ELSE IF ds = {} THEN 1
     ELSE 1 + CHOOSE x \in {depth[d] : d \in ds} : \A d \in ds : depth[d] <= x

\* C21: on a netlist whose combinational subgraph (all driver-to-pin edges but
\* those that enter a sequential cell) is acyclic, critical_path_depth ends with a depth
\* for every cell, also when a flip-flop feeds back into its own D input:
\* module inputs and flip-flops have depth 0, every other cell one more than
\* the largest depth of its driving cells.
C21_CriticalPathDepth ==
  [][(CriticalPathDepth /\ Acyclic({e \in FaninEdges(NL) : ~IsSeq(NL, e[2])})) =>
       /\ ~result'.val.overflow
       /\ Range(cells) \subseteq DOMAIN result'.val.depth
       /\ \A c \in Range(cells) :
            result'.val.depth[c] = DepthByRule(NL, result'.val.depth, c)]_vars

\* C22: common_subexpression_elimination never removes or merges a sequential
\* cell (DFF, DFFR, DFFRE, DFFS) or a memory cell (MEMRD, MEMWR), also when two
\* such cells have the same operation and the same driver on every input pin:
\* each stays in the netlist with its output pin on the net it was on.
C22_CseKeepsStateful ==
  [][CommonSubexpressionElimination =>
       \A c \in Range(cells) :
         cellTab[c].op \in SeqOps \cup {"MEMRD", "MEMWR"} =>
           /\ c \in Range(cells')
           /\ pinNet'[OutputPin(NL, c)] = pinNet[OutputPin(NL, c)]]_vars

\* c and d have the same operation, the same attributes and the same driver
\* on every input pin
SameFunction(n, c, d) ==
  /\ n.cellTab[c].op = n.cellTab[d].op
  /\ n.cellTab[c].value = n.cellTab[d].value
  /\ n.cellTab[c].ins = n.cellTab[d].ins
  /\ \A i \in DOMAIN n.cellTab[c].ins :
       DriverOf(n, InPins(n, c)[i]) = DriverOf(n, InPins(n, d)[i])

\* C29: common_subexpression_elimination merges a cell away only into a cell
\* that computes the same function: every cell the pass removes has another
\* cell with the same operation, the same input drivers and the same
\* attributes; two bit selects of one source at different positions both stay.
C29_CseRespectsAttributes ==
  [][CommonSubexpressionElimination =>
       \A d \in Range(cells) \ Range(cells') :
         \E c \in Range(cells) \ {d} : SameFunction(NL, c, d)]_vars

\* the clock of a sensitivity list: the signal of its first posedge entry
ClockOf(sens) ==
  LET pos == SelectSeq(sens, LAMBDA s : s.edge = "posedge")
  IN IF pos = <<>> THEN NoSignal ELSE pos[1].signal

\* the reset of a sensitivity list: the signal of a negedge entry, or of a
\* further posedge entry, that is not the clock
ResetOf(sens) ==
  LET others == SelectSeq(sens, LAMBDA s : s.edge \in {"posedge", "negedge"}
                                           /\ s.signal # ClockOf(sens))
  IN IF others = <<>> THEN NoSignal ELSE others[1].signal

\* C23: in a sequential always block the clock is the first posedge entry of
\* the sensitivity list and a negedge entry or a second posedge entry on
\* another signal is the reset; the flip-flop created for the block (clock
\* and reset declared) has that clock's net on CLK and, when there is a reset,
\* an RST pin on that reset's net.
C23_ClockAndReset ==
  [][(ElaborateSequentialAlways /\ pc' = "elab") =>
       LET item == module'.body[Len(module'.body)]
           clk == ClockOf(item.sens)
           rst == ResetOf(item.sens)
           made == {d \in Range(cells') \ Range(cells) : cellTab'[d].op \in SeqOps}
       IN (clk # NoSignal /\ net_map[clk] # NoNet /\ (rst # NoSignal => net_map[rst] # NoNet)) =>
          /\ made # {}
          /\ \A d \in made :
               /\ pinNet'[<<d, "CLK">>] = net_map'[clk]
               /\ rst # NoSignal =>
                    /\ "RST" \in Range(cellTab'[d].ins)
                    /\ pinNet'[<<d, "RST">>] = net_map'[rst]]_vars

RECURSIVE Identifiers(_)
\* the signal names an expression reads
Identifiers(e) ==
  CASE e.k = "id" -> {e.name}
    [] e.k = "un" -> Identifiers(e.e)
    [] e.k = "bin" -> Identifiers(e.l) \cup Identifiers(e.r)
    [] OTHER -> {}

\* the signal names a body item reads: those of its right-hand side and, for
\* a sequential block, those of its sensitivity list and of its condition
SignalsRead(item) ==
  Identifiers(item.rhs)
  \cup (IF item.k = "always_ff"
        THEN {item.sens[i].signal : i \in DOMAIN item.sens}
             \cup (IF item.form = "if" THEN {item.cond} ELSE {})
        ELSE {})

\* C24: elaboration fails with ElaborationError when a body item reads a
\* signal that has no port and no declaration (nor is the target of an
\* assignment, which declares it implicitly), be it in an expression or as
\* the clock or reset of a sensitivity list, and when a sequential always
\* block has no clock; no flip-flop is left with its CLK or RST pin
\* unconnected because the signal named was undefined.
C24_UndefinedSignalFails ==
  [][(ElaborateAssign \/ ElaborateCombinationalAlways \/ ElaborateSequentialAlways) =>
       LET item == module'.body[Len(module'.body)]
       IN ((\E s \in SignalsRead(item) \ {item.lhs} :
               module.decl[s] = "none" /\ net_map[s] = NoNet)
           \/ (item.k = "always_ff" /\ ClockOf(item.sens) = NoSignal)) =>
          pc' = "failed"]_vars

\* C25: evaluating a constant expression built from literals, parameter
\* names and the integer operators + - * / % & | ^ << >> yields an integer or
\* ElaborationError, also for a zero divisor and a negative shift amount; no
\* other failure escapes elaborate.
C25_ConstExprFailsCleanly ==
  result.op = "_resolve_parameters" =>
    result.val.out.kind \in {"int", "ElaborationError"}

\* the number of tokens of the type among the first k tokens
CountType(tokens, type, k) == Cardinality({i \in 1..k : tokens[i].type = type})

\* the places of the source where `(*` stands and the next character is not `)`
AttributeOpenings(source) ==
  {i \in 1..(Len(source) - 1) :
     /\ source[i] = "(" /\ source[i + 1] = "*"
     /\ ~(i + 2 <= Len(source) /\ source[i + 2] = ")")}

\* C26: for every text the lexer returns a token list in which an
\* attribute-begin token stands only for a `(*` whose next character is not
\* `)`, and in every prefix the attribute-end tokens are no more than the
\* attribute-begin tokens; `@(*)` lexes as AT, LPAREN, STAR, RPAREN with no
\* attribute token.
C26_AttributeTokens ==
  result.op = "tokenize" =>
    LET source == result.val.source
        out == result.val.out
    IN /\ CountType(out.tokens, "ATTR_BEGIN", Len(out.tokens))
            <= Cardinality(AttributeOpenings(source))
       /\ \A k \in 0..Len(out.tokens) :
            CountType(out.tokens, "ATTR_END", k) <= CountType(out.tokens, "ATTR_BEGIN", k)
       /\ source = <<"@", "(", "*", ")">> =>
            [i \in DOMAIN out.tokens |-> out.tokens[i].type]
               = <<"AT", "LPAREN", "STAR", "RPAREN", "EOF">>

RECURSIVE Denotes(_, _, _)
\* the number the digits denote in the base, x and z read as 0 and _ skipped
Denotes(digits, base, value) ==
  IF digits = <<>> THEN value
  ELSE LET ch == Head(digits)
       IN IF ch = "_" THEN Denotes(Tail(digits), base, value)
          ELSE IF ch \in {"x", "X", "z", "Z"} THEN Denotes(Tail(digits), base, value * base)
          ELSE Denotes(Tail(digits), base, value * base + DigitValue(ch))

C28_BackReferencesAgree ==
  (pc = "idle" /\ module # NoModule) =>
    \A net \in nets :
      /\ netTab[net].driver # NoPin => pinNet[netTab[net].driver] = net
      /\ \A s \in Range(netTab[net].sinks) : pinNet[s] = net

====
